---- MODULE Spec2Model ----
(***************************************************************************)
(* Emotion-aware chat: the dominant-channel resolution, the provider chain *)
(* (AIProviderManager), the emotion sample buffer (useEmotionBuffer), the  *)
(* server's storage and statistics route, and the face-detection timers    *)
(* (useFaceDetection).                                                     *)
(***************************************************************************)
EXTENDS Integers, Sequences, FiniteSets, TLC

VARIABLES
    \* --- dominant-channel resolution (one resolution at one call site)
    input,          \* the emotionContext value handed to the call site
    resolved,       \* <<>> before a resolution, <<r>> after: r = [site, threw, name, value]
    \* --- provider chain (one AIProviderManager.generateResponse call at a time)
    revision,       \* which copy of the manager is loaded: ai-providers.ts or the copy in routes.ts
    env,            \* the API keys present in process.env
    ctx,            \* the emotionContext argument of the running call
    pc,             \* position of the call: idle, loop, awaiting, fallback, returned, threw
    idx,            \* index of the for-of loop over this.providers
    tried,          \* provider ids in the order their generateResponse was called
    outcome,        \* per provider: none, ok, fail (how its last call ended)
    inflight,       \* providers whose generateResponse promise is pending
    failures,       \* providers logged by the catch block (console.warn)
    result,         \* <<>> or <<[response, provider]>>, the value returned to the caller
    answered,       \* <<>> or <<[provider, answer]>>: what the last settled call met on the network
    listed,         \* <<>> or the array getAvailableProviders last returned
    \* --- emotion sample buffer (useEmotionBuffer)
    emotionBuffer,  \* the hook's state: a sequence of samples
    now,            \* Date.now(), in ticks
    detected,       \* the vector the detector reads off the face at this instant
    appended,       \* history: the samples appended since the last clear
    cleared,        \* history: clearBuffer has been called
    observed,       \* <<>> or <<v>>: the value the last reader call returned
    \* --- server: MemStorage and the routes over it
    sessions,       \* MemStorage.sessions, in insertion order; a session's id is its index
    emotionAnalyses,\* MemStorage.emotionAnalyses, in insertion order
    chatMessages,   \* MemStorage.chatMessages, in insertion order
    clock,          \* the server's Date.now(), in milliseconds
    chatRequest,    \* what chat requests carry and meet: [emotionContext, openai]
    stats,          \* <<>> or <<r>>: the last response of GET /api/sessions/:sessionId/stats
    statsCalls,     \* per request slot: a stats handler between its awaits
    sessionCalls,   \* per request slot: a POST /api/sessions handler between its awaits
    chatCalls,      \* per request slot: a POST /api/chat handler between its awaits
    saved,          \* <<>> or <<r>>: the last response of POST /api/emotions
    \* --- face detection (useFaceDetection)
    isModelsLoaded, \* React state: the face-api models are loaded
    isDetecting,    \* React state: detection is running
    renders,        \* the values of the renders so far, whose callbacks callers may still hold
    detectionIntervalRef, \* the ref's current interval id, 0 for null
    autoSaveIntervalRef,  \* the ref's current interval id, 0 for null
    intervals,      \* the intervals set and not cleared: records [kind, id]
    started,        \* the number of startDetection calls that set intervals
    stoppedIds,     \* history: ids of the intervals set before some stopDetection call
    detecting,      \* ids of sampling ticks waiting for detectFaceEmotions
    lastDetection,  \* lastDetectionRef.current: <<>> for null, <<d>> for a detection
    delivered,      \* history: <<>> or <<d>>, the detection onDetection was last called with
    storedSession,  \* the id of the session held in localStorage, 0 for none
    fired           \* <<>> or <<e>>: the last tick, e = [kind, id, afterStop, data]

domVars == <<input, resolved>>
chainVars == <<revision, env, ctx, pc, idx, tried, outcome, inflight, failures, result,
               answered>>
bufferVars == <<emotionBuffer, now, detected, appended, cleared, observed>>
serverVars == <<sessions, emotionAnalyses, chatMessages, clock, chatRequest, stats>>
detectionVars ==
    <<isModelsLoaded, isDetecting, renders, detectionIntervalRef, autoSaveIntervalRef,
      intervals, started, stoppedIds, detecting, lastDetection, delivered, storedSession, fired>>
handlerVars == <<statsCalls, sessionCalls, chatCalls, saved>>
vars == <<domVars, chainVars, listed, bufferVars, serverVars, handlerVars, detectionVars>>

\* Each component leaves the other components' state alone.
DominantOnly == UNCHANGED <<chainVars, listed, bufferVars, serverVars, handlerVars, detectionVars>>
ChainOnly == UNCHANGED <<domVars, listed, bufferVars, serverVars, handlerVars, detectionVars>>
BufferOnly == UNCHANGED <<domVars, chainVars, listed, serverVars, handlerVars, detectionVars>>
ServerOnly == UNCHANGED <<domVars, chainVars, listed, bufferVars, handlerVars, detectionVars>>
DetectionOnly == UNCHANGED <<domVars, chainVars, listed, bufferVars, serverVars, handlerVars>>

----------------------------------------------------------------------------
(* JavaScript values that reach the code as an emotion context.            *)

\* EmotionData's keys, in the order the type and every literal lists them.
Channels == <<"happy", "sad", "angry", "surprised", "fearful", "disgusted", "neutral">>

ChannelSet == {Channels[i] : i \in 1..Len(Channels)}

ChannelIndex(c) == CHOOSE i \in 1..Len(Channels) : Channels[i] = c

\* Channel intensities the model draws from.
Levels == {0, 50, 100}

\* An object is the sequence of its [key, value] entries, in insertion order
\* (what Object.entries returns); null/undefined and a number are the
\* non-object values.
JsNull == [kind |-> "null", entries |-> <<>>]
JsNumber == [kind |-> "number", entries |-> <<>>]
JsObject(es) == [kind |-> "object", entries |-> es]
EmptyObject == JsObject(<<>>)

\* The object of a vector f : channel -> intensity, keys in canonical order.
VectorObject(f) == JsObject([i \in 1..Len(Channels) |-> <<Channels[i], f[Channels[i]]>>])

ZeroVector == [c \in ChannelSet |-> 0]
Only(c, v) == [ZeroVector EXCEPT ![c] = v]
Two(c, v, d, w) == [ZeroVector EXCEPT ![c] = v, ![d] = w]

createDefaultEmotionContext == VectorObject(Only("neutral", 100))

----------------------------------------------------------------------------
(* Dominant-channel resolution: entries.reduce((a, b) => a[1] > b[1] ? a : b) *)

\* A resolution that threw (TypeError) and one that returned the entry e.
Threw == [threw |-> TRUE, name |-> "", value |-> 0]
Returned(e) == [threw |-> FALSE, name |-> e[1], value |-> e[2]]

\* The reduce callback with >= in place of >.
ReduceCallbackKeepsOnTie(a, b) == IF a[2] >= b[2] THEN a ELSE b

\* The reduce callback: keeps the accumulator a only when it is strictly greater.
ReduceCallback(a, b) == IF a[2] > b[2] THEN a ELSE b

RECURSIVE ReduceFrom(_, _, _)
ReduceFrom(es, i, acc) ==
    IF i > Len(es) THEN acc ELSE ReduceFrom(es, i + 1, ReduceCallback(acc, es[i]))

\* Array.prototype.reduce without an initial value: a TypeError on an empty
\* array, otherwise the fold starting from the first entry.
Reduce(es) == IF Len(es) = 0 THEN Threw ELSE Returned(ReduceFrom(es, 2, es[1]))

\* Object.entries(v): a TypeError on null/undefined, no entries for a number.
ObjectEntriesThrows(v) == v.kind = "null"

\* ai-providers.ts: the context defaults to neutral = 100 when it is missing or
\* not an object, and an object without entries gets the entry [neutral, 100].
GuardedEntries(v) ==
    LET c == IF v.kind # "object" THEN createDefaultEmotionContext ELSE v
    IN IF Len(c.entries) = 0 THEN <<<<"neutral", 100>>>> ELSE c.entries

\* The resolution of ai-providers.ts with its guards dropped.
DominantWithoutGuards(v) == IF ObjectEntriesThrows(v) THEN Threw ELSE Reduce(v.entries)

\* ai-providers.ts: the reduce over the guarded entries.
DominantGuarded(v) == Reduce(GuardedEntries(v))

\* routes.ts: Object.entries(emotionContext).reduce(...) with no guard.
DominantUnguarded(v) == IF ObjectEntriesThrows(v) THEN Threw ELSE Reduce(v.entries)

----------------------------------------------------------------------------
(* GET /api/sessions/:sessionId/stats: the dominant emotion of the totals. *)

HasKey(es, k) == \E i \in 1..Len(es) : es[i][1] = k

\* emotionTotals[emotion] = value: the last sample's value replaces the total.
AddToTotalsOverwrites(totals, e) ==
    IF HasKey(totals, e[1])
    THEN [i \in 1..Len(totals) |-> IF totals[i][1] = e[1] THEN e ELSE totals[i]]
    ELSE Append(totals, e)

\* emotionTotals[emotion] = (emotionTotals[emotion] || 0) + value: an existing
\* key keeps its position, a new key is inserted last.
AddToTotals(totals, e) ==
    IF HasKey(totals, e[1])
    THEN [i \in 1..Len(totals) |->
            IF totals[i][1] = e[1] THEN <<e[1], totals[i][2] + e[2]>> ELSE totals[i]]
    ELSE Append(totals, e)

RECURSIVE AddEntries(_, _, _)
AddEntries(totals, es, i) ==
    IF i > Len(es) THEN totals ELSE AddEntries(AddToTotals(totals, es[i]), es, i + 1)

\* emotions.forEach(analysis => Object.entries(analysis.emotions).forEach(...))
RECURSIVE EmotionTotals(_, _, _)
EmotionTotals(samples, i, totals) ==
    IF i > Len(samples) THEN totals
    ELSE EmotionTotals(samples, i + 1, AddEntries(totals, samples[i].entries, 1))

\* Object.entries(emotionTotals).length > 0 ? ....reduce(...)[0] : 'neutral'
StatsDominant(totals) ==
    IF Len(totals) > 0 THEN Reduce(totals) ELSE [threw |-> FALSE, name |-> "neutral", value |-> 0]

----------------------------------------------------------------------------
(* ChatInterface.getEmotionDisplay: the two strongest channels of a message. *)

\* One step of a stable sort with the comparator ([,a], [,b]) => b - a: the
\* entry e goes behind every entry that is not smaller than it.
InsertDescending(sorted, e) ==
    LET before == {i \in 1..Len(sorted) : sorted[i][2] >= e[2]}
        n == IF before = {} THEN 0 ELSE CHOOSE i \in before : \A j \in before : j <= i
    IN SubSeq(sorted, 1, n) \o <<e>> \o SubSeq(sorted, n + 1, Len(sorted))

RECURSIVE SortDescending(_, _, _)
SortDescending(es, i, sorted) ==
    IF i > Len(es) THEN sorted ELSE SortDescending(es, i + 1, InsertDescending(sorted, es[i]))

\* Object.entries(emotions).sort(...).slice(0, 2)
TopEmotions(v) ==
    LET sorted == SortDescending(v.entries, 1, <<>>)
    IN SubSeq(sorted, 1, IF Len(sorted) < 2 THEN Len(sorted) ELSE 2)

\* What getEmotionDisplay shows first: nothing for a missing context or one
\* without entries, otherwise the head of the sorted entries.
NothingShown == [threw |-> FALSE, name |-> "", value |-> 0]
DisplayDominant(v) ==
    IF v.kind = "null" \/ Len(TopEmotions(v)) = 0 THEN NothingShown
    ELSE Returned(TopEmotions(v)[1])

----------------------------------------------------------------------------
(* The resolution applied at each call site to a drawn input.              *)

Vectors == [ChannelSet -> Levels]

Inputs == {VectorObject(f) : f \in Vectors} \cup {JsNull, JsNumber, EmptyObject}

\* The second persisted sample of the statistics scenarios.
StatExtras == {JsObject(<<>>), VectorObject(Two("happy", 50, "sad", 50)),
               VectorObject(Only("sad", 100))}

Resolution(site, over, r) ==
    <<[site |-> site, over |-> over, threw |-> r.threw, name |-> r.name, value |-> r.value]>>

InitDominant == input \in Inputs /\ resolved = <<>>

\* ai-providers.ts: every provider's generateResponse resolves behind the guards.
ResolveInProvider ==
    /\ resolved' = Resolution("provider", GuardedEntries(input), DominantGuarded(input))
    /\ UNCHANGED input
    /\ DominantOnly

\* routes.ts generateEmpatheticResponse (POST /api/chat): no guard.
ResolveInChatPath ==
    /\ resolved' = Resolution("chat", input.entries, DominantUnguarded(input))
    /\ UNCHANGED input
    /\ DominantOnly

\* routes.ts stats route: the session holds the input sample and, possibly, one more.
ResolveInStats ==
    /\ input.kind = "object"
    /\ \E more \in {<<>>} \cup {<<x>> : x \in StatExtras} :
          LET totals == EmotionTotals(<<input>> \o more, 1, <<>>)
          IN resolved' = Resolution("stats", totals, StatsDominant(totals))
    /\ UNCHANGED input
    /\ DominantOnly

\* ChatInterface.tsx: a message bubble shows the strongest channels of its context.
ResolveInDisplay ==
    /\ resolved' = Resolution("display", TopEmotions(input), DisplayDominant(input))
    /\ UNCHANGED input
    /\ DominantOnly

----------------------------------------------------------------------------
(* The providers and what each makes of the external service's answer.     *)

ProviderIds == {"FreeGPT", "Gemini", "OpenAI", "HuggingFace", "Local"}

\* The two copies of the manager in the sources.
Revisions == {"aiProviders", "routesCopy"}

\* this.providers, index 1 tried first.
Providers(rev) ==
    IF rev = "aiProviders"
    THEN <<"FreeGPT", "Gemini", "OpenAI", "HuggingFace", "Local">>
    ELSE <<"Gemini", "OpenAI", "HuggingFace", "Local">>

\* The name field of each provider class (transliterated).
ProviderName(p) ==
    CASE p = "FreeGPT" -> "Free GPT"
      [] p = "Gemini" -> "Google Gemini"
      [] p = "OpenAI" -> "OpenAI GPT-4o"
      [] p = "HuggingFace" -> "Hugging Face"
      [] p = "Local" -> "Local (guaranteed)"

\* The environment variable each provider's isConfigured reads.
KeyOf(rev, p) ==
    CASE p = "Gemini" -> IF rev = "aiProviders" THEN "GOOGLE_API_KEY" ELSE "GEMINI_API_KEY"
      [] p = "OpenAI" -> "OPENAI_API_KEY"
      [] p = "HuggingFace" -> "HUGGINGFACE_API_KEY"
      [] OTHER -> "none"

EnvKeys(rev) == {KeyOf(rev, p) : p \in {"Gemini", "OpenAI", "HuggingFace"}}

\* isConfigured(): true for Free GPT and the local provider, otherwise the key
\* is present (and not blank) in the environment e.
IsConfigured(rev, p, e) == IF p \in {"FreeGPT", "Local"} THEN TRUE ELSE KeyOf(rev, p) \in e

\* What the external service does with one request: the request throws (network
\* error), or it answers with a status (ok = 2xx) and a body.
Bodies == {"unparsable", "error", "nopayload", "emptytext", "valid"}
NetThrows == [threw |-> TRUE, ok |-> FALSE, body |-> "none"]
NetResponses == {NetThrows} \cup {[threw |-> FALSE, ok |-> o, body |-> b] : o \in BOOLEAN, b \in Bodies}

\* The length of each array getEmotionResponses returns.
ResponseVariants == 3

Text(kind, emotion, high, pick) == [kind |-> kind, emotion |-> emotion, high |-> high, pick |-> pick]
Remote == Text("remote", "", FALSE, 0)
EmptyText == Text("empty", "", FALSE, 0)
Apology == Text("apology", "", FALSE, 0)
OpenAIStub == Text("openai-stub", "", FALSE, 0)

Failed == [ok |-> FALSE, text |-> Text("", "", FALSE, 0)]
Succeeded(t) == [ok |-> TRUE, text |-> t]

\* LocalProvider.getEmotionResponses: happy, sad and angry have a high (> 60)
\* and a low list, every other emotion the default list; k is the random index.
LocalText(d, k) ==
    IF d.name \in {"happy", "sad", "angry"}
    THEN Text("local", d.name, d.value > 60, k)
    ELSE Text("local", "default", FALSE, k)

\* The dominant resolution at the head of every generateResponse.
Dominant(rev, c) == IF rev = "aiProviders" THEN DominantGuarded(c) ELSE DominantUnguarded(c)

\* FreeGPTProvider.generateResponse (ai-providers.ts only).
GenerateFreeGPT(r) ==
    IF r.threw \/ ~r.ok \/ r.body # "valid" THEN Failed ELSE Succeeded(Remote)

\* GeminiProvider.generateResponse: REST in ai-providers.ts, the SDK in routes.ts.
GenerateGemini(rev, r) ==
    IF r.threw \/ ~r.ok \/ r.body = "unparsable" THEN Failed
    ELSE IF rev = "aiProviders"
         THEN CASE r.body = "valid" -> Succeeded(Remote)
                [] r.body = "emptytext" -> Succeeded(EmptyText)
                [] OTHER -> Failed
         ELSE IF r.body = "valid" THEN Succeeded(Remote) ELSE Succeeded(Apology)

\* OpenAIProvider.generateResponse: a stub without a request in ai-providers.ts,
\* the SDK call in routes.ts.
GenerateOpenAI(rev, r) ==
    IF rev = "aiProviders" THEN Succeeded(OpenAIStub)
    ELSE IF r.threw \/ ~r.ok THEN Failed
    ELSE CASE r.body = "valid" -> Succeeded(Remote)
           [] r.body = "emptytext" -> Succeeded(Apology)
           [] OTHER -> Failed

\* HuggingFaceProvider.generateResponse: the status is not looked at.
GenerateHuggingFace(r) ==
    IF r.threw \/ r.body \in {"unparsable", "error"} THEN Failed
    ELSE IF r.body = "valid" THEN Succeeded(Remote) ELSE Succeeded(Apology)

\* provider.generateResponse(userMessage, emotionContext) for the context c, the
\* external answer r and the random index k.
Generate(rev, p, c, r, k) ==
    LET d == Dominant(rev, c)
    IN IF d.threw THEN Failed
       ELSE CASE p = "FreeGPT" -> GenerateFreeGPT(r)
              [] p = "Gemini" -> GenerateGemini(rev, r)
              [] p = "OpenAI" -> GenerateOpenAI(rev, r)
              [] p = "HuggingFace" -> GenerateHuggingFace(r)
              [] p = "Local" -> Succeeded(LocalText(d, k))

----------------------------------------------------------------------------
(* AIProviderManager.generateResponse, one step per action.                *)

ChainContexts ==
    {JsNull, JsNumber, EmptyObject, VectorObject(Two("happy", 50, "sad", 50)),
     VectorObject(Only("happy", 100)), VectorObject(Only("sad", 50))}

Chain == Providers(revision)
Current == Chain[idx]
NoOutcome == [p \in ProviderIds |-> "none"]
Calls(p) == Cardinality({i \in 1..Len(tried) : tried[i] = p})

InitChain ==
    /\ revision \in Revisions
    /\ env \in SUBSET EnvKeys(revision)
    /\ ctx = JsNull
    /\ pc = "idle"
    /\ idx = 1
    /\ tried = <<>>
    /\ outcome = NoOutcome
    /\ inflight = {}
    /\ failures = <<>>
    /\ result = <<>>
    /\ answered = <<>>
    /\ listed = <<>>

\* A caller calls generateResponse(userMessage, c).
Call ==
    /\ pc \in {"idle", "returned", "threw"}
    /\ \E c \in ChainContexts : ctx' = c
    /\ pc' = "loop"
    /\ idx' = 1
    /\ tried' = <<>>
    /\ outcome' = NoOutcome
    /\ inflight' = {}
    /\ failures' = <<>>
    /\ result' = <<>>
    /\ answered' = <<>>
    /\ UNCHANGED <<revision, env>>
    /\ ChainOnly

\* The else branch: the provider is not configured and the loop moves on.
Skip ==
    /\ pc = "loop" /\ idx <= Len(Chain)
    /\ ~IsConfigured(revision, Current, env)
    /\ idx' = idx + 1
    /\ UNCHANGED <<revision, env, ctx, pc, tried, outcome, inflight, failures, result, answered>>
    /\ ChainOnly

\* Invoke with the isConfigured test left out.
InvokeUnconfigured ==
    /\ pc = "loop" /\ idx <= Len(Chain)
    /\ tried' = Append(tried, Current)
    /\ inflight' = inflight \cup {Current}
    /\ pc' = "awaiting"
    /\ UNCHANGED <<revision, env, ctx, idx, outcome, failures, result, answered>>
    /\ ChainOnly

\* provider.generateResponse(...) is called and awaited.
Invoke ==
    /\ pc = "loop" /\ idx <= Len(Chain)
    /\ IsConfigured(revision, Current, env)
    /\ tried' = Append(tried, Current)
    /\ inflight' = inflight \cup {Current}
    /\ pc' = "awaiting"
    /\ UNCHANGED <<revision, env, ctx, idx, outcome, failures, result, answered>>
    /\ ChainOnly

\* The awaited call resolves but the loop goes on to the next provider.
ReturnSuccessAndContinue ==
    /\ pc = "awaiting"
    /\ \E r \in NetResponses, k \in 1..ResponseVariants :
          LET g == Generate(revision, Current, ctx, r, k)
          IN /\ g.ok
             /\ result' = <<[response |-> g.text, provider |-> ProviderName(Current)]>>
             /\ answered' = <<[provider |-> Current, answer |-> r]>>
    /\ outcome' = [outcome EXCEPT ![Current] = "ok"]
    /\ inflight' = inflight \ {Current}
    /\ idx' = idx + 1
    /\ pc' = "loop"
    /\ UNCHANGED <<revision, env, ctx, tried, failures>>
    /\ ChainOnly

\* The awaited call resolves: return {response, provider: provider.name}.
ReturnSuccess ==
    /\ pc = "awaiting"
    /\ \E r \in NetResponses, k \in 1..ResponseVariants :
          LET g == Generate(revision, Current, ctx, r, k)
          IN /\ g.ok
             /\ result' = <<[response |-> g.text, provider |-> ProviderName(Current)]>>
             /\ answered' = <<[provider |-> Current, answer |-> r]>>
    /\ outcome' = [outcome EXCEPT ![Current] = "ok"]
    /\ inflight' = inflight \ {Current}
    /\ pc' = "returned"
    /\ UNCHANGED <<revision, env, ctx, idx, tried, failures>>
    /\ ChainOnly

\* A catch block that leaves the loop (break) instead of continuing it.
AfterFailureBreak(i, n) == n + 1

\* continue: the for-of loop takes the next provider.
AfterFailure(i, n) == i + 1

\* A catch block that rethrows.
CatchFailureRethrows ==
    /\ pc = "awaiting"
    /\ \E r \in NetResponses :
          /\ ~Generate(revision, Current, ctx, r, 1).ok
          /\ answered' = <<[provider |-> Current, answer |-> r]>>
    /\ outcome' = [outcome EXCEPT ![Current] = "fail"]
    /\ inflight' = inflight \ {Current}
    /\ pc' = "threw"
    /\ UNCHANGED <<revision, env, ctx, idx, tried, failures, result>>
    /\ ChainOnly

\* The awaited call rejects: the catch block logs the failure and continues.
CatchFailure ==
    /\ pc = "awaiting"
    /\ \E r \in NetResponses :
          /\ ~Generate(revision, Current, ctx, r, 1).ok
          /\ answered' = <<[provider |-> Current, answer |-> r]>>
    /\ failures' = Append(failures, Current)
    /\ outcome' = [outcome EXCEPT ![Current] = "fail"]
    /\ inflight' = inflight \ {Current}
    /\ idx' = AfterFailure(idx, Len(Chain))
    /\ pc' = "loop"
    /\ UNCHANGED <<revision, env, ctx, tried, result>>
    /\ ChainOnly

\* The loop is exhausted: new LocalProvider().generateResponse(...) is called.
Exhausted ==
    /\ pc = "loop" /\ idx > Len(Chain)
    /\ tried' = Append(tried, "Local")
    /\ inflight' = inflight \cup {"Local"}
    /\ pc' = "fallback"
    /\ UNCHANGED <<revision, env, ctx, idx, outcome, failures, result, answered>>
    /\ ChainOnly

\* A fallback whose rejection is caught and answered with an apology text.
FallbackSwallows ==
    /\ pc = "fallback"
    /\ \E k \in 1..ResponseVariants :
          LET g == Generate(revision, "Local", ctx, NetThrows, k)
          IN /\ result' = <<[response |-> IF g.ok THEN g.text ELSE Apology,
                              provider |-> ProviderName("Local")]>>
             /\ outcome' = [outcome EXCEPT !["Local"] = IF g.ok THEN "ok" ELSE "fail"]
             /\ pc' = "returned"
    /\ inflight' = inflight \ {"Local"}
    /\ UNCHANGED <<revision, env, ctx, idx, tried, failures, answered>>
    /\ ChainOnly

\* The fallback call settles: its result is returned, its error propagates.
FallbackSettles ==
    /\ pc = "fallback"
    /\ \E k \in 1..ResponseVariants :
          LET g == Generate(revision, "Local", ctx, NetThrows, k)
          IN IF g.ok
             THEN /\ result' = <<[response |-> g.text, provider |-> ProviderName("Local")]>>
                  /\ outcome' = [outcome EXCEPT !["Local"] = "ok"]
                  /\ pc' = "returned"
             ELSE /\ result' = result
                  /\ outcome' = [outcome EXCEPT !["Local"] = "fail"]
                  /\ pc' = "threw"
    /\ inflight' = inflight \ {"Local"}
    /\ UNCHANGED <<revision, env, ctx, idx, tried, failures, answered>>
    /\ ChainOnly

\* An entry of the listing that reports every provider as configured.
ListEntryAlwaysConfigured(rev, p, e) == [name |-> ProviderName(p), configured |-> TRUE]

\* provider => ({ name: provider.name, configured: provider.isConfigured() })
\* (the description text of ai-providers.ts is left out).
ListEntry(rev, p, e) == [name |-> ProviderName(p), configured |-> IsConfigured(rev, p, e)]

\* getAvailableProviders(): this.providers.map(...), at any point of a call or
\* between calls.
GetAvailableProviders ==
    /\ listed' = [i \in 1..Len(Chain) |-> ListEntry(revision, Chain[i], env)]
    /\ UNCHANGED <<chainVars, domVars, bufferVars, serverVars, handlerVars, detectionVars>>

NextChain ==
    \/ Call \/ Skip \/ Invoke \/ ReturnSuccess \/ CatchFailure \/ Exhausted \/ FallbackSettles
    \/ GetAvailableProviders


----------------------------------------------------------------------------
(* useEmotionBuffer: the state emotionBuffer and its four callbacks.       *)

\* The number of entries addEmotion keeps: slice(-10).
Capacity == 10

\* Appends since the last clear, and clock ticks, the model explores.
MaxAppends == 12
MaxNow == 2

\* The vectors the detector delivers.
SampleVectors == {Only("happy", 100), Two("happy", 50, "sad", 50)}

\* Array.prototype.slice(start) for a negative start keeping the first entries instead.
JsSliceKeepsFirst(s, start) ==
    LET from == IF start < 0 THEN (IF Len(s) + start > 0 THEN Len(s) + start ELSE 0)
                ELSE (IF start < Len(s) THEN start ELSE Len(s))
    IN SubSeq(s, 1, Len(s) - from)

\* Array.prototype.slice(start) returning the whole array.
JsSliceKeepsAll(s, start) == s

\* Array.prototype.slice(start): from index start (counted from the end when
\* negative, clamped to the array) to the end.
JsSlice(s, start) ==
    LET from == IF start < 0 THEN (IF Len(s) + start > 0 THEN Len(s) + start ELSE 0)
                ELSE (IF start < Len(s) THEN start ELSE Len(s))
    IN SubSeq(s, from + 1, Len(s))

\* getLatestEmotion reading the first entry.
GetOldestEmotion(buffer) == IF Len(buffer) > 0 THEN <<buffer[1]>> ELSE <<>>

\* getLatestEmotion(): the last entry, or null (the empty sequence here).
GetLatestEmotion(buffer) == IF Len(buffer) > 0 THEN <<buffer[Len(buffer)]>> ELSE <<>>

\* getAverageEmotions' default argument, in milliseconds (one clock tick is 1 ms).
DefaultWindowMs == 30000

\* The timeWindowMs arguments callers pass: none (<<>>), or an explicit window.
WindowArgs == {<<>>, <<0>>, <<1>>}

\* timeWindowMs: number = 30000
TimeWindowMs(arg) == IF arg = <<>> THEN DefaultWindowMs ELSE arg[1]

\* The filter of getAverageEmotions leaving out the sample on the boundary.
InWindowExclusive(entry, t, timeWindowMs) == t - entry.timestamp < timeWindowMs

\* entry => now - entry.timestamp <= timeWindowMs
InWindow(entry, t, timeWindowMs) == t - entry.timestamp <= timeWindowMs

\* emotionBuffer.filter(...)
RecentEmotions(buffer, t, timeWindowMs) ==
    SelectSeq(buffer, LAMBDA entry : InWindow(entry, t, timeWindowMs))

\* avgEmotions[emotion] += entry.emotions[emotion], over the entries from i on.
RECURSIVE SumChannel(_, _, _)
SumChannel(entries, emotion, i) ==
    IF i > Len(entries) THEN 0
    ELSE entries[i].emotions[emotion] + SumChannel(entries, emotion, i + 1)

RECURSIVE Gcd(_, _)
Gcd(a, b) == IF b = 0 THEN a ELSE Gcd(b, a % b)

\* The number a / b (b > 0, a >= 0), as the fraction in lowest terms.
Quotient(a, b) == LET g == Gcd(a, b) IN [num |-> a \div g, den |-> b \div g]

\* getAverageEmotions(timeWindowMs) at time t: null (the empty sequence here)
\* or the vector of per-channel quotients.
GetAverageEmotions(buffer, t, timeWindowMs) ==
    LET recentEmotions == RecentEmotions(buffer, t, timeWindowMs)
    IN IF Len(recentEmotions) = 0 THEN <<>>
       ELSE <<[emotion \in ChannelSet |->
                 Quotient(SumChannel(recentEmotions, emotion, 1), Len(recentEmotions))]>>

InitBuffer ==
    /\ emotionBuffer = <<>>
    /\ now = 0
    /\ detected \in SampleVectors
    /\ appended = <<>>
    /\ cleared = FALSE
    /\ observed = <<>>

\* addEmotion(detected): setEmotionBuffer(prev => [...prev, newEntry].slice(-10)).
AddEmotion ==
    /\ Len(appended) < MaxAppends
    /\ LET newEntry == [emotions |-> detected, timestamp |-> now]
       IN /\ emotionBuffer' = JsSlice(Append(emotionBuffer, newEntry), -Capacity)
          /\ appended' = Append(appended, newEntry)
    /\ observed' = <<>>
    /\ UNCHANGED <<now, detected, cleared>>
    /\ BufferOnly

\* A reader calls getLatestEmotion().
ReadLatest ==
    /\ observed' = <<[op |-> "latest", value |-> GetLatestEmotion(emotionBuffer)]>>
    /\ UNCHANGED <<emotionBuffer, now, detected, appended, cleared>>
    /\ BufferOnly

\* clearBuffer() leaving the latest sample in the buffer.
ClearBufferKeepsLatest ==
    /\ emotionBuffer' = GetLatestEmotion(emotionBuffer)
    /\ appended' = <<>>
    /\ cleared' = TRUE
    /\ observed' = <<>>
    /\ UNCHANGED <<now, detected>>
    /\ BufferOnly

\* clearBuffer(): setEmotionBuffer([]).
ClearBuffer ==
    /\ emotionBuffer' = <<>>
    /\ appended' = <<>>
    /\ cleared' = TRUE
    /\ observed' = <<>>
    /\ UNCHANGED <<now, detected>>
    /\ BufferOnly

\* Time passes between two calls, and the face may change.
Tick ==
    /\ now < MaxNow
    /\ now' = now + 1
    /\ detected' \in SampleVectors
    /\ observed' = <<>>
    /\ UNCHANGED <<emotionBuffer, appended, cleared>>
    /\ BufferOnly

\* A reader calls getAverageEmotions(), with or without a window.
ReadAverage ==
    /\ \E arg \in WindowArgs :
          observed' = <<[op |-> "average", arg |-> arg, window |-> TimeWindowMs(arg),
                         value |-> GetAverageEmotions(emotionBuffer, now, TimeWindowMs(arg))]>>
    /\ UNCHANGED <<emotionBuffer, now, detected, appended, cleared>>
    /\ BufferOnly

NextBuffer == AddEmotion \/ ReadLatest \/ ReadAverage \/ ClearBuffer \/ Tick

----------------------------------------------------------------------------
(* The server: MemStorage (storage.ts) and the routes over it (routes.ts).  *)

\* Sessions, persisted samples and chats, and clock steps, the model explores.
MaxSessions == 3
MaxSamples == 3
MaxChats == 2
MaxSteps == 4

\* One clock step, in milliseconds.
StepMs == 500

Users == {"u1", "u2"}

\* The bodies POST /api/emotions receives: a vector and a confidence (<<>> when
\* the field is missing).
SampleBodies ==
    { [emotions |-> VectorObject(Only("happy", 100)), confidence |-> <<85>>],
      [emotions |-> VectorObject(Two("happy", 60, "sad", 40)), confidence |-> <<>>],
      [emotions |-> VectorObject(Only("sad", 100)), confidence |-> <<50>>] }

\* x || null for a number field: a missing value and 0 both become null (<<>>).
OrNull(x) == IF x = <<>> \/ x[1] = 0 THEN <<>> ELSE x

\* Array.from(this.sessions.values()).find(s => s.userId === userId && s.isActive):
\* the index of the first such session, 0 when there is none.
GetActiveSessionByUserId(userId) ==
    LET hits == {i \in 1..Len(sessions) : sessions[i].userId = userId /\ sessions[i].isActive}
    IN IF hits = {} THEN 0 ELSE CHOOSE i \in hits : \A j \in hits : i <= j

\* An update that ends the session and leaves its end time as it was.
UpdateSessionKeepsEndTime(ss, id, t) ==
    IF id = 0 THEN ss ELSE [ss EXCEPT ![id].isActive = FALSE]

\* updateSession(id, { isActive: false, endTime: new Date() })
UpdateSession(ss, id, t) ==
    IF id = 0 THEN ss ELSE [ss EXCEPT ![id].isActive = FALSE, ![id].endTime = <<t>>]

\* createSession: startTime new Date(), endTime null, isActive true.
NewSession(userId, t) ==
    [userId |-> userId, startTime |-> t, endTime |-> <<>>, isActive |-> TRUE]

\* The records of the session and of every session created after it.
BySessionOrLater(records, sessionId) ==
    SelectSeq(records, LAMBDA r : r.sessionId >= sessionId)

\* The records of every session, whatever the id asked for.
BySessionUnfiltered(records, sessionId) == records

\* getEmotionAnalysesBySession / getChatMessagesBySession: the records of the
\* session, in insertion order (the messages' sort by timestamp is stable and
\* timestamps never decrease with insertion).
BySession(records, sessionId) ==
    SelectSeq(records, LAMBDA r : r.sessionId = sessionId)

\* The OpenAI service as generateEmpatheticResponse meets it, and the emotion
\* contexts the client attaches to a chat message.
OpenAIUp == [threw |-> FALSE, ok |-> TRUE, body |-> "valid"]
OpenAIAnswers == {NetThrows, OpenAIUp, [threw |-> FALSE, ok |-> TRUE, body |-> "emptytext"]}
ChatContexts == {JsNull, VectorObject(Only("happy", 100))}
ChatRequests == [emotionContext : ChatContexts, openai : OpenAIAnswers]

\* The chats of a client with a detected face while the OpenAI service answers.
UsualChat == [emotionContext |-> VectorObject(Only("happy", 100)), openai |-> OpenAIUp]

\* The texts generateEmpatheticResponse returns besides the service's answer:
\* the one of its catch block and the one replacing an empty content.
ChatApology == Text("chat-apology", "", FALSE, 0)
ChatRephrase == Text("chat-rephrase", "", FALSE, 0)
UserText == Text("user", "", FALSE, 0)

\* generateEmpatheticResponse(userMessage, emotionContext): the unguarded
\* resolution and the OpenAI call inside one try, the catch returning an apology.
GenerateEmpatheticResponse(c, r) ==
    IF DominantUnguarded(c).threw THEN ChatApology
    ELSE IF r.threw \/ ~r.ok \/ r.body \in {"unparsable", "error", "nopayload"} THEN ChatApology
    ELSE IF r.body = "emptytext" THEN ChatRephrase
    ELSE Remote

\* The requests in flight at the same time.
Requests == {"r1", "r2"}

\* A handler slot with no request in it.
IdleStatsCall ==
    [pc |-> "idle", sessionId |-> 0, emotions |-> <<>>, messages |-> <<>>,
     session |-> <<>>, overlapped |-> FALSE, response |-> <<>>]

IdleSessionCall == [pc |-> "idle", userId |-> "", existingSession |-> 0]

IdleChatCall ==
    [pc |-> "idle", body |-> <<>>, userMessage |-> 0, answer |-> <<>>, aiMessage |-> 0,
     response |-> <<>>]

HandlersIdle ==
    /\ statsCalls = [r \in Requests |-> IdleStatsCall]
    /\ sessionCalls = [r \in Requests |-> IdleSessionCall]
    /\ chatCalls = [r \in Requests |-> IdleChatCall]
    /\ saved = <<>>

InitServer ==
    /\ sessions = <<>>
    /\ emotionAnalyses = <<>>
    /\ chatMessages = <<>>
    /\ clock = 0
    /\ chatRequest = UsualChat
    /\ stats = <<>>
    /\ HandlersIdle

\* POST /api/sessions: end the user's active session, then create a new one.
CreateSession ==
    /\ Len(sessions) < MaxSessions
    /\ \E userId \in Users :
          sessions' = Append(UpdateSession(sessions, GetActiveSessionByUserId(userId), clock),
                             NewSession(userId, clock))
    /\ stats' = <<>>
    /\ UNCHANGED <<emotionAnalyses, chatMessages, clock, chatRequest>>
    /\ ServerOnly

\* POST /api/emotions: createEmotionAnalysis(body).
SaveEmotion ==
    /\ Len(emotionAnalyses) < MaxSamples
    /\ \E sessionId \in 1..Len(sessions), body \in SampleBodies :
          emotionAnalyses' = Append(emotionAnalyses,
              [sessionId |-> sessionId, emotions |-> body.emotions,
               confidence |-> OrNull(body.confidence), timestamp |-> clock])
    /\ stats' = <<>>
    /\ UNCHANGED <<sessions, chatMessages, clock, chatRequest>>
    /\ ServerOnly

\* Bodies whose emotions field is JSON but no emotion vector: the insert schema
\* takes any JSON for the jsonb column.
MalformedBodies ==
    { [emotions |-> JsObject(<<<<"joy", 100>>>>), confidence |-> <<85>>],
      [emotions |-> JsObject(<<<<"happy", 100>>, <<"0", 100>>>>), confidence |-> <<>>] }

\* POST /api/emotions with such a body: createEmotionAnalysis(body) all the same.
SaveMalformedEmotion ==
    /\ Len(emotionAnalyses) < MaxSamples
    /\ \E sessionId \in 1..Len(sessions), body \in MalformedBodies :
          emotionAnalyses' = Append(emotionAnalyses,
              [sessionId |-> sessionId, emotions |-> body.emotions,
               confidence |-> OrNull(body.confidence), timestamp |-> clock])
    /\ stats' = <<>>
    /\ UNCHANGED <<sessions, chatMessages, clock, chatRequest>>
    /\ ServerOnly

\* POST /api/chat: the user's message is stored, generateEmpatheticResponse is
\* awaited, and its text is stored as the AI's message.
SaveChat ==
    /\ Len(chatMessages) < 2 * MaxChats
    /\ \E sessionId \in 1..Len(sessions) :
          LET aiResponse ==
                GenerateEmpatheticResponse(chatRequest.emotionContext, chatRequest.openai)
          IN chatMessages' = chatMessages \o
              << [sessionId |-> sessionId, isUser |-> TRUE, content |-> UserText,
                  emotionContext |-> chatRequest.emotionContext, timestamp |-> clock],
                 [sessionId |-> sessionId, isUser |-> FALSE, content |-> aiResponse,
                  emotionContext |-> chatRequest.emotionContext, timestamp |-> clock] >>
    /\ stats' = <<>>
    /\ UNCHANGED <<sessions, emotionAnalyses, clock, chatRequest>>
    /\ ServerOnly

\* Time passes on the server.
AdvanceClock ==
    /\ clock < MaxSteps * StepMs
    /\ clock' = clock + StepMs
    /\ stats' = <<>>
    /\ UNCHANGED <<sessions, emotionAnalyses, chatMessages, chatRequest>>
    /\ ServerOnly

\* emotions.reduce((sum, e) => sum + (e.confidence || 0), 0), from entry i on.
RECURSIVE ConfidenceSum(_, _)
ConfidenceSum(emotions, i) ==
    IF i > Len(emotions) THEN 0
    ELSE (IF emotions[i].confidence = <<>> THEN 0 ELSE emotions[i].confidence[1])
         + ConfidenceSum(emotions, i + 1)

\* Math.round taking the floor of the quotient.
MathRoundDown(a, b) == a \div b

\* Math.round(a / b) for a >= 0, b > 0: the nearest integer, halves upwards.
MathRound(a, b) == (2 * a + b) \div (2 * b)

\* Math.floor(ms / 1000) for ms >= 0.
FloorSeconds(ms) == ms \div 1000

AverageConfidence(emotions) ==
    IF Len(emotions) > 0 THEN MathRound(ConfidenceSum(emotions, 1), Len(emotions)) ELSE 0

\* The duration measured to the query time whatever the session's state.
DurationToNow(session, t) == FloorSeconds(t - session.startTime)

\* session.isActive && startTime ? floor((now - start) / 1000)
\*   : endTime && startTime ? floor((end - start) / 1000) : 0
\* (startTime is always set by createSession.)
Duration(session, t) ==
    IF session.isActive THEN FloorSeconds(t - session.startTime)
    ELSE IF session.endTime # <<>> THEN FloorSeconds(session.endTime[1] - session.startTime)
    ELSE 0

\* emotions.slice(-1)[0]?.emotions || null taking the first sample.
FirstEmotions(emotions) ==
    IF Len(emotions) = 0 THEN JsNull ELSE emotions[1].emotions

\* emotions.slice(-1)[0]?.emotions || null
LatestEmotions(emotions) ==
    LET last == JsSlice(emotions, -1)
    IN IF Len(last) = 0 THEN JsNull ELSE last[1].emotions

\* The vectors of the samples, for the totals.
VectorsOf(emotions) == [i \in 1..Len(emotions) |-> emotions[i].emotions]

\* The response body the stats route computes from what it has read (with the
\* emotionTotals it was computed from, which the route does not send).
StatsBodyFrom(sessionId, emotions, messages, session, t) ==
    LET emotionTotals == EmotionTotals(VectorsOf(emotions), 1, <<>>)
    IN [status |-> 200, sessionId |-> sessionId, at |-> t,
        duration |-> Duration(session, t),
        detections |-> Len(emotions),
        averageConfidence |-> AverageConfidence(emotions),
        emotionTotals |-> emotionTotals,
        dominantEmotion |-> StatsDominant(emotionTotals).name,
        messageCount |-> Len(messages),
        latestEmotions |-> LatestEmotions(emotions)]

\* The response body of the stats route for an existing session, read and
\* computed without interruption at time t.
StatsBody(sessionId, t) ==
    StatsBodyFrom(sessionId, BySession(emotionAnalyses, sessionId),
                  BySession(chatMessages, sessionId), sessions[sessionId], t)

\* The response for an id getSession does not know.
NotFound(sessionId, t) == [status |-> 404, sessionId |-> sessionId, at |-> t]

\* GET /api/sessions/:sessionId/stats, for a known or an unknown session id.
GetStats ==
    /\ \E sessionId \in 1..(Len(sessions) + 1) :
          stats' = IF sessionId > Len(sessions)
                   THEN <<NotFound(sessionId, clock)>>
                   ELSE <<StatsBody(sessionId, clock)>>
    /\ UNCHANGED <<sessions, emotionAnalyses, chatMessages, clock, chatRequest>>
    /\ ServerOnly

\* A server some way into its life: u1's first session was ended by the
\* creation of the second.
StoredSessions ==
    << [userId |-> "u1", startTime |-> 0, endTime |-> <<1500>>, isActive |-> FALSE],
       [userId |-> "u1", startTime |-> 1500, endTime |-> <<>>, isActive |-> TRUE] >>

----------------------------------------------------------------------------
(* The async route handlers step by step: each await hands the event loop  *)
(* to the continuations of the other requests.                             *)

HandlerOnly == UNCHANGED <<domVars, chainVars, listed, bufferVars, detectionVars, chatCalls, saved>>

\* A handler's const kept in a variable that all requests share.
KeepShared(calls, r, field, value) ==
    [q \in DOMAIN calls |-> [calls[q] EXCEPT ![field] = value]]

\* const x = await ...: a local of the handler's own invocation.
KeepLocal(calls, r, field, value) == [calls EXCEPT ![r][field] = value]

\* Another stats request is between its first read and its response.
OthersInFlight(r) ==
    \E q \in Requests \ {r} : statsCalls[q].pc \in {"messages", "session", "respond"}

\* The samples and messages a server holds some way into its life.
StoredSamples ==
    << [sessionId |-> 1, emotions |-> VectorObject(Only("happy", 100)),
        confidence |-> <<85>>, timestamp |-> 0],
       [sessionId |-> 2, emotions |-> VectorObject(Only("sad", 100)),
        confidence |-> <<50>>, timestamp |-> 1500],
       [sessionId |-> 1, emotions |-> VectorObject(Two("happy", 60, "sad", 40)),
        confidence |-> <<>>, timestamp |-> 1500] >>

StoredChats ==
    << [sessionId |-> 2, isUser |-> TRUE, content |-> UserText,
        emotionContext |-> JsNull, timestamp |-> 1500],
       [sessionId |-> 2, isUser |-> FALSE, content |-> ChatApology,
        emotionContext |-> JsNull, timestamp |-> 1500] >>

\* GET /api/sessions/:sessionId/stats up to its first await:
\* storage.getEmotionAnalysesBySession(sessionId) is called.
StatsReadsEmotions ==
    /\ \E r \in Requests, sessionId \in 1..(Len(sessions) + 1) :
          /\ statsCalls[r].pc = "idle"
          /\ statsCalls' =
                KeepLocal([statsCalls EXCEPT ![r].pc = "messages", ![r].sessionId = sessionId],
                          r, "emotions", BySession(emotionAnalyses, sessionId))
    /\ UNCHANGED <<serverVars, sessionCalls>>
    /\ HandlerOnly

\* ... up to its second await: storage.getChatMessagesBySession(sessionId).
StatsReadsMessages ==
    /\ \E r \in Requests :
          /\ statsCalls[r].pc = "messages"
          /\ statsCalls' =
                KeepLocal([statsCalls EXCEPT ![r].pc = "session"],
                          r, "messages", BySession(chatMessages, statsCalls[r].sessionId))
    /\ UNCHANGED <<serverVars, sessionCalls>>
    /\ HandlerOnly

\* ... up to its third await: storage.getSession(sessionId).
StatsReadsSession ==
    /\ \E r \in Requests :
          /\ statsCalls[r].pc = "session"
          /\ statsCalls' =
                KeepLocal([statsCalls EXCEPT ![r].pc = "respond"],
                          r, "session",
                          IF statsCalls[r].sessionId \in 1..Len(sessions)
                          THEN <<sessions[statsCalls[r].sessionId]>> ELSE <<>>)
    /\ UNCHANGED <<serverVars, sessionCalls>>
    /\ HandlerOnly

\* ... to its end: 404 without a session, otherwise the statistics of what
\* was read, with Date.now() for the duration.
StatsResponds ==
    /\ \E r \in Requests :
          LET call == statsCalls[r]
          IN /\ call.pc = "respond"
             /\ statsCalls' =
                   [statsCalls EXCEPT
                      ![r].pc = "done",
                      ![r].overlapped = OthersInFlight(r),
                      ![r].response =
                          IF call.session = <<>> THEN <<NotFound(call.sessionId, clock)>>
                          ELSE <<StatsBodyFrom(call.sessionId, call.emotions, call.messages,
                                               call.session[1], clock)>>]
    /\ UNCHANGED <<serverVars, sessionCalls>>
    /\ HandlerOnly

\* POST /api/sessions up to its first await:
\* storage.getActiveSessionByUserId(userId) is called.
SessionLooksUp ==
    /\ Len(sessions)
         + Cardinality({q \in Requests : sessionCalls[q].pc \in {"found", "create"}})
         < MaxSessions
    /\ \E r \in Requests, userId \in Users :
          /\ sessionCalls[r].pc \in {"idle", "done"}
          /\ sessionCalls' =
                [sessionCalls EXCEPT
                   ![r] = [pc |-> "found", userId |-> userId,
                           existingSession |-> GetActiveSessionByUserId(userId)]]
    /\ UNCHANGED <<serverVars, statsCalls>>
    /\ HandlerOnly

\* ... up to its next await: storage.updateSession(...) when a session was
\* found, storage.createSession(...) at once when none was.
SessionContinues ==
    /\ \E r \in Requests :
          LET call == sessionCalls[r]
          IN /\ call.pc = "found"
             /\ IF call.existingSession # 0
                THEN /\ sessions' = UpdateSession(sessions, call.existingSession, clock)
                     /\ sessionCalls' = [sessionCalls EXCEPT ![r].pc = "create"]
                ELSE /\ sessions' = Append(sessions, NewSession(call.userId, clock))
                     /\ sessionCalls' = [sessionCalls EXCEPT ![r].pc = "done"]
    /\ stats' = <<>>
    /\ UNCHANGED <<emotionAnalyses, chatMessages, clock, chatRequest, statsCalls>>
    /\ HandlerOnly

\* ... after updateSession: storage.createSession(sessionData).
SessionCreates ==
    /\ \E r \in Requests :
          /\ sessionCalls[r].pc = "create"
          /\ sessions' = Append(sessions, NewSession(sessionCalls[r].userId, clock))
          /\ sessionCalls' = [sessionCalls EXCEPT ![r].pc = "done"]
    /\ stats' = <<>>
    /\ UNCHANGED <<emotionAnalyses, chatMessages, clock, chatRequest, statsCalls>>
    /\ HandlerOnly

----------------------------------------------------------------------------
(* The write routes with their validation: POST /api/chat step by step and *)
(* POST /api/emotions.                                                     *)

WriteOnly ==
    UNCHANGED <<domVars, chainVars, listed, bufferVars, detectionVars, statsCalls, sessionCalls>>

\* Request bodies of POST /api/chat: a field is <<>> when the body lacks it.
ChatBodies ==
    [sessionId : {1}, content : {<<UserText>>}, isUser : {<<TRUE>>, <<FALSE>>},
     emotionContext : {VectorObject(Only("happy", 100))}]
    \cup [sessionId : {2}, content : {<<UserText>>}, isUser : {<<TRUE>>},
          emotionContext : {JsNull}]
    \cup [sessionId : {1}, content : {<<>>}, isUser : {<<TRUE>>}, emotionContext : {JsNull}]
    \cup [sessionId : {1}, content : {<<UserText>>}, isUser : {<<>>}, emotionContext : {JsNull}]

\* insertChatMessageSchema.parse(req.body): content and isUser are notNull
\* columns, so a body without either is thrown out.
ParsesChat(body) == body.content # <<>> /\ body.isUser # <<>>

\* value || null for an emotion context.
ContextOrNull(c) == IF c.kind = "null" THEN JsNull ELSE c

\* createChatMessage(insertMessage): the stored record.
NewChatMessage(sessionId, isUser, content, emotionContext, t) ==
    [sessionId |-> sessionId, isUser |-> isUser, content |-> content,
     emotionContext |-> ContextOrNull(emotionContext), timestamp |-> t]

\* What a handler holds when generateEmpatheticResponse rejects.
Rejected == Text("rejected", "", FALSE, 0)

\* generateEmpatheticResponse without its try/catch.
GenerateWithoutCatch(c, r) ==
    IF DominantUnguarded(c).threw THEN Rejected
    ELSE IF r.threw \/ ~r.ok \/ r.body \in {"unparsable", "error", "nopayload"} THEN Rejected
    ELSE IF r.body = "emptytext" THEN ChatRephrase
    ELSE Remote

\* The call of generateEmpatheticResponse in the chat route.
AwaitedResponse(c, r) == GenerateEmpatheticResponse(c, r)

\* POST /api/chat up to its first await: the body is parsed and the user's
\* message stored; a body that fails to parse ends in the catch block (500).
ChatStoresUser ==
    /\ Len(chatMessages) < 2 * MaxChats
    /\ \E r \in Requests, body \in ChatBodies :
          /\ chatCalls[r].pc = "idle"
          /\ IF ~ParsesChat(body)
             THEN /\ chatCalls' = [chatCalls EXCEPT ![r] =
                         [IdleChatCall EXCEPT !.pc = "done", !.body = <<body>>,
                                              !.response = <<[status |-> 500]>>]]
                  /\ UNCHANGED chatMessages
             ELSE /\ chatMessages' = Append(chatMessages,
                         NewChatMessage(body.sessionId, body.isUser[1], body.content[1],
                                        body.emotionContext, clock))
                  /\ chatCalls' = [chatCalls EXCEPT ![r] =
                         [IdleChatCall EXCEPT !.pc = "generate", !.body = <<body>>,
                                              !.userMessage = Len(chatMessages) + 1]]
    /\ stats' = <<>>
    /\ UNCHANGED <<sessions, emotionAnalyses, clock, chatRequest, saved>>
    /\ WriteOnly

\* ... generateEmpatheticResponse settles and the AI's message is stored; had
\* it rejected, the catch block would answer 500.
ChatStoresAi ==
    /\ \E r \in Requests, answer \in OpenAIAnswers :
          LET call == chatCalls[r]
              body == call.body[1]
              aiResponse == AwaitedResponse(body.emotionContext, answer)
          IN /\ call.pc = "generate"
             /\ IF aiResponse = Rejected
                THEN /\ chatCalls' = [chatCalls EXCEPT ![r].pc = "done",
                                                       ![r].answer = <<answer>>,
                                                       ![r].response = <<[status |-> 500]>>]
                     /\ UNCHANGED chatMessages
                ELSE /\ chatMessages' = Append(chatMessages,
                            NewChatMessage(body.sessionId, FALSE, aiResponse,
                                           body.emotionContext, clock))
                     /\ chatCalls' = [chatCalls EXCEPT ![r].pc = "respond",
                                                       ![r].answer = <<answer>>,
                                                       ![r].aiMessage = Len(chatMessages) + 1]
    /\ stats' = <<>>
    /\ UNCHANGED <<sessions, emotionAnalyses, clock, chatRequest, saved>>
    /\ WriteOnly

\* ... res.json({ userMessage, aiMessage }).
ChatResponds ==
    /\ \E r \in Requests :
          /\ chatCalls[r].pc = "respond"
          /\ chatCalls' = [chatCalls EXCEPT ![r].pc = "done",
                                            ![r].response = <<[status |-> 200]>>]
    /\ UNCHANGED <<serverVars, saved>>
    /\ WriteOnly

\* Request bodies of POST /api/emotions: with a vector, and without the
\* emotions field.
PostedSamples ==
    { [emotions |-> <<VectorObject(Only("happy", 100))>>, confidence |-> <<85>>],
      [emotions |-> <<>>, confidence |-> <<85>>] }

\* A schema that lets every body through.
ParsesAnySample(body) == TRUE

\* insertEmotionAnalysisSchema.parse(req.body): emotions is a notNull column.
ParsesSample(body) == body.emotions # <<>>

\* POST /api/emotions: 400 for a body that fails to parse, otherwise
\* createEmotionAnalysis(body) and the stored record.
PostEmotion ==
    /\ Len(emotionAnalyses) < MaxSamples
    /\ \E sessionId \in 1..Len(sessions), body \in PostedSamples :
          IF ~ParsesSample(body)
          THEN /\ saved' = <<[status |-> 400, sessionId |-> sessionId, body |-> body]>>
               /\ UNCHANGED emotionAnalyses
          ELSE /\ saved' = <<[status |-> 200, sessionId |-> sessionId, body |-> body]>>
               /\ emotionAnalyses' = Append(emotionAnalyses,
                      [sessionId |-> sessionId,
                       emotions |-> IF body.emotions = <<>> THEN JsNull ELSE body.emotions[1],
                       confidence |-> OrNull(body.confidence), timestamp |-> clock])
    /\ stats' = <<>>
    /\ UNCHANGED <<sessions, chatMessages, clock, chatRequest, chatCalls>>
    /\ WriteOnly

----------------------------------------------------------------------------
(* useFaceDetection: startDetection, stopDetection and the two intervals.   *)

\* startDetection calls that set intervals, the model explores.
MaxStarts == 3

\* What a render's startDetection closes over.
Render(loaded, elements, running) ==
    [isModelsLoaded |-> loaded, hasElements |-> elements, isDetecting |-> running]

Interval(kind, id) == [kind |-> kind, id |-> id]

\* clearInterval(ref.current) when the ref holds an id.
ClearInterval(set, kind, ref) == IF ref # 0 THEN set \ {Interval(kind, ref)} ELSE set

InitDetection ==
    /\ isModelsLoaded = FALSE
    /\ isDetecting = FALSE
    /\ renders = {Render(FALSE, FALSE, FALSE)}
    /\ detectionIntervalRef = 0
    /\ autoSaveIntervalRef = 0
    /\ intervals = {}
    /\ started = 0
    /\ stoppedIds = {}
    /\ detecting = {}
    /\ lastDetection = <<>>
    /\ delivered = <<>>
    /\ storedSession = 0
    /\ fired = <<>>

\* loadFaceApiModels() resolves: setIsModelsLoaded(true).
ModelsLoaded ==
    /\ ~isModelsLoaded
    /\ isModelsLoaded' = TRUE
    /\ UNCHANGED <<isDetecting, renders, detectionIntervalRef, autoSaveIntervalRef, intervals,
                   started, stoppedIds, detecting, lastDetection, fired,
                   delivered, storedSession>>
    /\ DetectionOnly

\* React renders the component with the current state (the video and canvas
\* elements are mounted by then); the callbacks of earlier renders stay with
\* whoever holds them (a timer, an effect that did not run again).
Rerender ==
    /\ Render(isModelsLoaded, TRUE, isDetecting) \notin renders
    /\ renders' = renders \cup {Render(isModelsLoaded, TRUE, isDetecting)}
    /\ UNCHANGED <<isModelsLoaded, isDetecting, detectionIntervalRef, autoSaveIntervalRef,
                   intervals, started, stoppedIds, detecting, lastDetection, fired,
                   delivered, storedSession>>
    /\ DetectionOnly

\* startDetection() of some render r: returns early on its guard, otherwise
\* sets both intervals and stores their ids in the refs.
StartDetection ==
    /\ started < MaxStarts
    /\ \E r \in renders :
          /\ ~(~r.isModelsLoaded \/ ~r.hasElements \/ r.isDetecting)
    /\ isDetecting' = TRUE
    /\ started' = started + 1
    /\ detectionIntervalRef' = started + 1
    /\ autoSaveIntervalRef' = started + 1
    /\ intervals' = intervals \cup {Interval("sampling", started + 1),
                                     Interval("persistence", started + 1)}
    /\ fired' = <<>>
    /\ UNCHANGED <<isModelsLoaded, renders, stoppedIds, detecting, lastDetection,
                   delivered, storedSession>>
    /\ DetectionOnly

\* stopDetection(): clears the interval each ref holds and nulls the ref.
StopDetection ==
    /\ isDetecting' = FALSE
    /\ intervals' = ClearInterval(ClearInterval(intervals, "sampling", detectionIntervalRef),
                                  "persistence", autoSaveIntervalRef)
    /\ detectionIntervalRef' = 0
    /\ autoSaveIntervalRef' = 0
    /\ stoppedIds' = 1..started
    /\ fired' = <<>>
    /\ UNCHANGED <<isModelsLoaded, renders, started, detecting, lastDetection,
                   delivered, storedSession>>
    /\ DetectionOnly

\* The 500 ms interval fires: detectFaceEmotions is called and awaited.
SamplingTick ==
    /\ \E t \in intervals :
          /\ t.kind = "sampling"
          /\ detecting' = detecting \cup {t.id}
          /\ fired' = <<[kind |-> "sampling", id |-> t.id, afterStop |-> t.id \in stoppedIds,
                          data |-> <<>>]>>
    /\ UNCHANGED <<isModelsLoaded, isDetecting, renders, detectionIntervalRef,
                   autoSaveIntervalRef, intervals, started, stoppedIds, lastDetection,
                   delivered, storedSession>>
    /\ DetectionOnly

\* What detectFaceEmotions resolves to when it finds a face.
DetectedFaces ==
    {[emotions |-> VectorObject(Only("happy", 100)), age |-> 30, gender |-> "male"],
     [emotions |-> VectorObject(Two("happy", 50, "sad", 50)), age |-> 25, gender |-> "female"]}

\* A ref that keeps the first detection it was given.
RememberFirst(last, d) == IF last = <<>> THEN <<d>> ELSE last

\* lastDetectionRef.current = {emotions, age, gender, sessionId}
Remember(last, d) == <<d>>

\* The argument of saveEmotionMutation.mutate, <<>> when the tick returns
\* without calling it.
AutoSave(last, sessionId) ==
    IF last = <<>> \/ sessionId = 0 THEN <<>>
    ELSE <<[sessionId |-> sessionId, emotions |-> last[1].emotions, age |-> last[1].age,
            gender |-> last[1].gender, confidence |-> 85]>>

\* home.tsx: the session the server created is written to localStorage.
StoreSession ==
    /\ storedSession = 0
    /\ storedSession' = 1
    /\ fired' = <<>>
    /\ UNCHANGED <<isModelsLoaded, isDetecting, renders, detectionIntervalRef,
                   autoSaveIntervalRef, intervals, started, stoppedIds, detecting,
                   lastDetection, delivered>>
    /\ DetectionOnly

\* detectFaceEmotions settles: with a face, lastDetectionRef is set and
\* onDetection is called; with none (or an error) nothing happens.
DetectionSettles ==
    /\ \E id \in detecting, found \in {<<>>} \cup {<<d>> : d \in DetectedFaces} :
          /\ detecting' = detecting \ {id}
          /\ IF found # <<>>
             THEN /\ lastDetection' = Remember(lastDetection, found[1])
                  /\ delivered' = found
                  /\ fired' = <<[kind |-> "delivery", id |-> id,
                                  afterStop |-> id \in stoppedIds, data |-> found]>>
             ELSE UNCHANGED <<lastDetection, delivered, fired>>
    /\ UNCHANGED <<isModelsLoaded, isDetecting, renders, detectionIntervalRef,
                   autoSaveIntervalRef, intervals, started, stoppedIds, storedSession>>
    /\ DetectionOnly

\* The 5 s interval fires: the last detection, if any, is posted.
PersistenceTick ==
    /\ \E t \in intervals :
          /\ t.kind = "persistence"
          /\ fired' = <<[kind |-> "persistence", id |-> t.id, afterStop |-> t.id \in stoppedIds,
                          data |-> AutoSave(lastDetection, storedSession)]>>
    /\ UNCHANGED <<isModelsLoaded, isDetecting, renders, detectionIntervalRef,
                   autoSaveIntervalRef, intervals, started, stoppedIds, detecting, lastDetection,
                   delivered, storedSession>>
    /\ DetectionOnly

NextDetection ==
    \/ ModelsLoaded \/ Rerender \/ StartDetection \/ StopDetection
    \/ SamplingTick \/ DetectionSettles \/ PersistenceTick \/ StoreSession

----------------------------------------------------------------------------
(* Specifications: one per component, the other components at rest.        *)

NextDominant == ResolveInProvider \/ ResolveInChatPath \/ ResolveInStats \/ ResolveInDisplay

DominantAtRest == input = JsNull /\ resolved = <<>>

ChainAtRest ==
    /\ revision = "aiProviders" /\ env = {} /\ ctx = JsNull /\ pc = "idle" /\ idx = 1
    /\ tried = <<>> /\ outcome = NoOutcome /\ inflight = {} /\ failures = <<>>
    /\ result = <<>> /\ answered = <<>> /\ listed = <<>>

BufferAtRest ==
    /\ emotionBuffer = <<>> /\ now = 0 /\ detected = Only("happy", 100)
    /\ appended = <<>> /\ cleared = FALSE /\ observed = <<>>

ServerAtRest ==
    /\ sessions = <<>> /\ emotionAnalyses = <<>> /\ chatMessages = <<>>
    /\ clock = 0 /\ chatRequest = UsualChat /\ stats = <<>>
    /\ HandlersIdle

DominantInit == InitDominant /\ ChainAtRest /\ BufferAtRest /\ ServerAtRest /\ InitDetection

SpecDominant == DominantInit /\ [][NextDominant]_vars

ChainInit == DominantAtRest /\ InitChain /\ BufferAtRest /\ ServerAtRest /\ InitDetection

SpecChain == ChainInit /\ [][NextChain]_vars

\* The event loop runs every continuation that is ready, and every provider
\* invocation eventually returns or fails.
ChainFairness ==
    /\ WF_vars(Skip) /\ WF_vars(Invoke) /\ WF_vars(ReturnSuccess \/ CatchFailure)
    /\ WF_vars(Exhausted) /\ WF_vars(FallbackSettles)

SpecChainFair == ChainInit /\ [][NextChain]_vars /\ ChainFairness

BufferInit == DominantAtRest /\ ChainAtRest /\ InitBuffer /\ ServerAtRest /\ InitDetection

SpecBuffer == BufferInit /\ [][NextBuffer]_vars

\* Sessions over time: creation, the clock, and the statistics read.
NextSessions == CreateSession \/ AdvanceClock \/ GetStats

SessionsInit == DominantAtRest /\ ChainAtRest /\ BufferAtRest /\ InitServer /\ InitDetection

SpecSessions == SessionsInit /\ [][NextSessions]_vars

\* Samples and chats written to the sessions of a running server, and the
\* statistics read.
NextStats == SaveEmotion \/ SaveChat \/ GetStats

StatsInit ==
    /\ DominantAtRest /\ ChainAtRest /\ BufferAtRest /\ InitDetection
    /\ sessions = StoredSessions /\ emotionAnalyses = <<>> /\ chatMessages = <<>>
    /\ clock = 2500 /\ chatRequest = UsualChat /\ stats = <<>>
    /\ HandlersIdle

SpecStats == StatsInit /\ [][NextStats]_vars

\* Samples of every kind, emotion vectors or not, and the statistics read.
NextStatsAnyJson == SaveEmotion \/ SaveMalformedEmotion \/ GetStats

SpecStatsAnyJson == StatsInit /\ [][NextStatsAnyJson]_vars

\* Chats of every kind written to the sessions of a running server.
NextChat == SaveChat \/ GetStats

ChatInit ==
    /\ DominantAtRest /\ ChainAtRest /\ BufferAtRest /\ InitDetection
    /\ sessions = StoredSessions /\ emotionAnalyses = <<>> /\ chatMessages = <<>>
    /\ clock = 2500 /\ chatRequest \in ChatRequests /\ stats = <<>>
    /\ HandlersIdle

SpecChat == ChatInit /\ [][NextChat]_vars

\* Statistics requests whose handlers interleave at their awaits, over a
\* storage that nothing else writes.
NextStatsOverlap ==
    \/ StatsReadsEmotions \/ StatsReadsMessages \/ StatsReadsSession \/ StatsResponds
    \/ AdvanceClock

StatsOverlapInit ==
    /\ DominantAtRest /\ ChainAtRest /\ BufferAtRest /\ InitDetection
    /\ sessions = StoredSessions
    /\ emotionAnalyses \in {<<>>, StoredSamples}
    /\ chatMessages \in {<<>>, StoredChats}
    /\ clock = 1500 /\ chatRequest = UsualChat /\ stats = <<>>
    /\ HandlersIdle

SpecStatsOverlap == StatsOverlapInit /\ [][NextStatsOverlap]_vars

\* Chat requests whose handlers interleave at their awaits, and samples
\* posted meanwhile, with bodies that parse and bodies that do not.
NextWrites == ChatStoresUser \/ ChatStoresAi \/ ChatResponds \/ PostEmotion

WritesInit ==
    /\ DominantAtRest /\ ChainAtRest /\ BufferAtRest /\ InitDetection
    /\ sessions = StoredSessions /\ emotionAnalyses = <<>> /\ chatMessages = <<>>
    /\ clock = 2500 /\ chatRequest = UsualChat /\ stats = <<>>
    /\ HandlersIdle

SpecWrites == WritesInit /\ [][NextWrites]_vars

\* Session requests whose handlers interleave at their awaits.
NextSessionsOverlap == SessionLooksUp \/ SessionContinues \/ SessionCreates \/ AdvanceClock

SessionsOverlapInit ==
    DominantAtRest /\ ChainAtRest /\ BufferAtRest /\ InitServer /\ InitDetection

SpecSessionsOverlap == SessionsOverlapInit /\ [][NextSessionsOverlap]_vars

DetectionInit ==
    DominantAtRest /\ ChainAtRest /\ BufferAtRest /\ ServerAtRest /\ InitDetection

SpecDetection == DetectionInit /\ [][NextDetection]_vars

NextServer ==
    \/ CreateSession \/ SaveEmotion \/ SaveMalformedEmotion \/ SaveChat \/ AdvanceClock
    \/ GetStats
    \/ StatsReadsEmotions \/ StatsReadsMessages \/ StatsReadsSession \/ StatsResponds
    \/ SessionLooksUp \/ SessionContinues \/ SessionCreates
    \/ ChatStoresUser \/ ChatStoresAi \/ ChatResponds \/ PostEmotion

Init == InitDominant /\ InitChain /\ InitBuffer /\ InitServer /\ InitDetection

Next == NextDominant \/ NextChain \/ NextBuffer \/ NextServer \/ NextDetection

Spec == Init /\ [][Next]_vars


----------------------------------------------------------------------------
(* Provider chain: claims C1 - C6.                                         *)

Configured(p) == IsConfigured(revision, p, env)
IndexOf(p) == CHOOSE i \in 1..Len(Chain) : Chain[i] = p
InChain(p) == \E i \in 1..Len(Chain) : Chain[i] = p
IsConfiguredHere(p) == Configured(p)
ConfiguredChain == SelectSeq(Chain, IsConfiguredHere)
Running == pc \in {"loop", "awaiting", "fallback"}

\* C1: the returned provider name is that of the first provider, in priority
\* order, that is configured and whose generate call succeeded; every configured
\* provider before it was invoked exactly once and failed, and no unconfigured
\* provider before it was invoked.
C1_FirstConfiguredSuccess ==
    pc = "returned" =>
        \E i \in 1..Len(Chain) :
            /\ result = <<[response |-> result[1].response, provider |-> ProviderName(Chain[i])]>>
            /\ Configured(Chain[i])
            /\ outcome[Chain[i]] = "ok"
            /\ Calls(Chain[i]) = 1
            /\ \A j \in 1..(i - 1) :
                  IF Configured(Chain[j])
                  THEN Calls(Chain[j]) = 1 /\ outcome[Chain[j]] = "fail"
                  ELSE Calls(Chain[j]) = 0

\* [A unconfigured, B configured and failing, C configured and succeeding]:
\* the result names C, B was invoked once, A never.
C1_Witness ==
    /\ pc = "returned"
    /\ \E a, b, c \in 1..Len(Chain) :
          /\ a < b /\ b < c
          /\ ~Configured(Chain[a]) /\ Calls(Chain[a]) = 0
          /\ Configured(Chain[b]) /\ outcome[Chain[b]] = "fail" /\ Calls(Chain[b]) = 1
          /\ result[1].provider = ProviderName(Chain[c])

C3_ShortCircuit ==
    /\ Cardinality(inflight) <= 1
    /\ \A i \in 1..Len(Chain) :
          outcome[Chain[i]] = "ok" =>
              /\ ~Running
              /\ \A j \in (i + 1)..Len(Chain) : Calls(Chain[j]) = 0 /\ Chain[j] \notin inflight

\* A provider succeeded while configured providers after it were left alone.
C3_Witness ==
    /\ pc = "returned" /\ inflight = {}
    /\ \E i \in 1..Len(Chain) :
          /\ outcome[Chain[i]] = "ok"
          /\ Cardinality({j \in (i + 1)..Len(Chain) : Configured(Chain[j])}) >= 2

\* C4: an unconfigured provider is never invoked and its skip records no failure;
\* the providers tried are those a chain holding only the configured providers
\* would try, in that order.
C4_UnconfiguredSkipped ==
    /\ \A i \in 1..Len(Chain) :
          ~Configured(Chain[i]) =>
              /\ Calls(Chain[i]) = 0
              /\ outcome[Chain[i]] = "none"
              /\ Chain[i] \notin inflight
              /\ \A k \in 1..Len(failures) : failures[k] # Chain[i]
    /\ \A k \in 1..Len(tried) :
          k <= Len(ConfiguredChain) => tried[k] = ConfiguredChain[k]
    /\ (pc = "returned" /\ Len(tried) <= Len(ConfiguredChain)) =>
          result[1].provider = ProviderName(ConfiguredChain[Len(tried)])

\* Two unconfigured providers were passed over before the provider that answered.
C4_Witness ==
    /\ pc = "returned"
    /\ \E i \in 1..Len(Chain) :
          /\ result[1].provider = ProviderName(Chain[i])
          /\ Cardinality({j \in 1..(i - 1) : ~Configured(Chain[j])}) >= 2
          /\ Len(failures) >= 1

\* C5: within one call every provider is attempted at most once, the post-loop
\* fallback included.
C5_AtMostOnce == \A p \in ProviderIds : Calls(p) <= 1

----------------------------------------------------------------------------
(* Dominant-channel resolution: claims C7, C8.                             *)

Values(es) == {es[i][2] : i \in 1..Len(es)}
MaxValue(es) == CHOOSE m \in Values(es) : \A w \in Values(es) : m >= w
Winners(es) == {es[i][1] : i \in {k \in 1..Len(es) : es[k][2] = MaxValue(es)}}
LatestWinner(es) ==
    CHOOSE c \in Winners(es) : \A d \in Winners(es) : ChannelIndex(c) >= ChannelIndex(d)
EarliestWinner(es) ==
    CHOOSE c \in Winners(es) : \A d \in Winners(es) : ChannelIndex(c) <= ChannelIndex(d)
Settled ==
    /\ resolved # <<>> /\ resolved[1].site \in {"provider", "chat", "stats"}
    /\ ~resolved[1].threw /\ Len(resolved[1].over) > 0

\* C7 (as amended): the resolution returns the maximum value, and among the
\* channels that share it the one that comes latest in the canonical order.
C7_LatestChannelWinsTies ==
    Settled =>
        /\ resolved[1].value = MaxValue(resolved[1].over)
        /\ resolved[1].name = LatestWinner(resolved[1].over)

\* C7 (as claimed): among the channels that share the maximum the earliest in
\* the canonical order is returned.
C7_EarliestChannelWinsTies ==
    Settled =>
        /\ resolved[1].value = MaxValue(resolved[1].over)
        /\ resolved[1].name = EarliestWinner(resolved[1].over)

\* {happy: 50, sad: 50, others 0} was resolved for a prompt and for the statistics.
C7_Witness ==
    /\ Settled
    /\ input = VectorObject(Two("happy", 50, "sad", 50))
    /\ resolved[1].site \in {"provider", "stats"}
    /\ resolved[1].over = input.entries
    /\ resolved[1].name = "sad" /\ resolved[1].value = 50

\* C8: at every provider and on the chat path the resolution returns a pair
\* without throwing, and a missing or empty vector resolves to neutral, 100.
C8_TotalEverywhere ==
    (resolved # <<>> /\ resolved[1].site \in {"provider", "chat"}) =>
        /\ ~resolved[1].threw
        /\ (input \in {JsNull, EmptyObject} =>
               resolved[1].name = "neutral" /\ resolved[1].value = 100)


----------------------------------------------------------------------------
(* Emotion sample buffer: claims C9, C10.                                  *)

Min(a, b) == IF a <= b THEN a ELSE b
Kept == Min(Capacity, Len(appended))

\* C9: the buffer never holds more than 10 samples and is exactly the last
\* min(10, count) samples appended, oldest first; after 12 appends it holds 10,
\* the latest is the 12th and the first two are gone.
C9_BufferIsLastTen ==
    /\ Len(emotionBuffer) <= Capacity
    /\ Len(emotionBuffer) = Kept
    /\ \A i \in 1..Kept : emotionBuffer[i] = appended[Len(appended) - Kept + i]
    /\ Len(appended) = Capacity + 2 =>
          /\ Len(emotionBuffer) = Capacity
          /\ GetLatestEmotion(emotionBuffer) = <<appended[Capacity + 2]>>
          /\ emotionBuffer[1] = appended[3]

\* Twelve samples were appended and the first two, taken at an earlier instant
\* than the rest, are no longer in the buffer.
C9_Witness ==
    /\ Len(appended) = Capacity + 2
    /\ Len(emotionBuffer) = Capacity
    /\ \A i \in 1..Len(emotionBuffer) : emotionBuffer[i] \notin {appended[1], appended[2]}

\* C10: getLatestEmotion returns the sample of the most recent append since the
\* last clear, and null exactly when there has been none.
C10_LatestIsMostRecent ==
    (observed # <<>> /\ observed[1].op = "latest") =>
        observed[1].value =
            IF Len(appended) = 0 THEN <<>> ELSE <<appended[Len(appended)]>>

\* After a clear and two appends of different samples, a reader got the second.
C10_Witness ==
    /\ observed # <<>> /\ observed[1].op = "latest"
    /\ cleared
    /\ Len(appended) = 2 /\ appended[1] # appended[2]
    /\ observed[1].value = <<appended[2]>>


----------------------------------------------------------------------------
(* Emotion buffer: claims C11 - C12.                                       *)

\* The buffered samples a window w selects at the current time.
Selected(w) == {i \in 1..Len(emotionBuffer) : now - emotionBuffer[i].timestamp <= w}

RECURSIVE SumOver(_, _)
SumOver(S, c) ==
    IF S = {} THEN 0
    ELSE LET i == CHOOSE j \in S : TRUE
         IN emotionBuffer[i].emotions[c] + SumOver(S \ {i}, c)

AverageRead == observed # <<>> /\ observed[1].op = "average"

\* C11: getAverageEmotions(w) selects exactly the samples with now - timestamp <= w
\* (w = 30000 when no argument is given); it returns null when it selects none,
\* and otherwise, for each of the seven channels, the sum of the channel over
\* the selected samples divided by the number of selected samples.
C11_WindowedAverage ==
    AverageRead =>
        LET o == observed[1]
            S == Selected(o.window)
        IN /\ o.window = (IF o.arg = <<>> THEN 30000 ELSE o.arg[1])
           /\ (o.value = <<>>) <=> (S = {})
           /\ S # {} =>
                 /\ DOMAIN o.value[1] = ChannelSet
                 /\ \A c \in ChannelSet :
                       /\ o.value[1][c].den > 0
                       /\ o.value[1][c].num * Cardinality(S) = o.value[1][c].den * SumOver(S, c)

\* A read with window 1 that takes in a sample exactly on the boundary, leaves an
\* older one out, and averages happy 100 and happy 50 / sad 50 to sad 25.
C11_Witness ==
    /\ AverageRead /\ observed[1].window = 1
    /\ \E i \in 1..Len(emotionBuffer) : now - emotionBuffer[i].timestamp = 1
    /\ \E i \in 1..Len(emotionBuffer) : now - emotionBuffer[i].timestamp > 1
    /\ observed[1].value # <<>>
    /\ observed[1].value[1]["sad"] = [num |-> 25, den |-> 1]
    /\ observed[1].value[1]["happy"] = [num |-> 75, den |-> 1]

\* C12: clearBuffer empties the buffer whatever it held: until the next append
\* the buffer has size 0, getLatestEmotion returns null and getAverageEmotions
\* returns null for every window; the next append leaves exactly that one sample.
C12_ClearEmpties ==
    /\ (cleared /\ appended = <<>>) =>
          /\ Len(emotionBuffer) = 0
          /\ GetLatestEmotion(emotionBuffer) = <<>>
          /\ \A w \in {0, 1, MaxNow, DefaultWindowMs} :
                GetAverageEmotions(emotionBuffer, now, w) = <<>>
          /\ observed # <<>> => observed[1].value = <<>>
    /\ (cleared /\ Len(appended) = 1) => emotionBuffer = appended

\* After a clear, one sample was appended and a reader got it back as the latest.
C12_Witness ==
    /\ cleared /\ Len(appended) = 1 /\ emotionBuffer = appended
    /\ observed # <<>> /\ observed[1].op = "latest" /\ observed[1].value = appended

----------------------------------------------------------------------------
(* Session statistics: claims C13 - C17.                                   *)

StatsRead == stats # <<>> /\ stats[1].status = 200

\* The persisted samples of the session the last statistics read was about.
SamplesOf(sessionId) ==
    {i \in 1..Len(emotionAnalyses) : emotionAnalyses[i].sessionId = sessionId}

\* The value an object holds under key c (0 when it has no such key).
ValueAt(obj, c) ==
    IF \E i \in 1..Len(obj.entries) : obj.entries[i][1] = c
    THEN obj.entries[CHOOSE i \in 1..Len(obj.entries) : obj.entries[i][1] = c][2]
    ELSE 0

RECURSIVE TotalOver(_, _)
TotalOver(S, c) ==
    IF S = {} THEN 0
    ELSE LET i == CHOOSE j \in S : TRUE
         IN ValueAt(emotionAnalyses[i].emotions, c) + TotalOver(S \ {i}, c)

\* The channels whose total over S is the largest.
TopChannels(S) ==
    {c \in ChannelSet : \A d \in ChannelSet : TotalOver(S, d) <= TotalOver(S, c)}

EarliestOf(cs) == CHOOSE c \in cs : \A d \in cs : ChannelIndex(c) <= ChannelIndex(d)
LatestOf(cs) == CHOOSE c \in cs : \A d \in cs : ChannelIndex(d) <= ChannelIndex(c)

\* emotionTotals holds, for every channel, the sum over the session's samples.
TotalsAreSums(S) ==
    /\ S # {} => \A c \in ChannelSet :
                    ValueAt(JsObject(stats[1].emotionTotals), c) = TotalOver(S, c)
    /\ S = {} => stats[1].emotionTotals = <<>>

\* C13: emotionTotals[channel] is the sum of the channel over the session's
\* persisted samples; dominantEmotion is "neutral" when the session has no
\* sample and otherwise the channel with the largest total, the channel LATER
\* in canonical order winning a tie (happy 100 + sad 100 gives sad).
C13_StatsDominantLatestOnTie ==
    StatsRead =>
        LET S == SamplesOf(stats[1].sessionId)
        IN /\ TotalsAreSums(S)
           /\ S = {} => stats[1].dominantEmotion = "neutral"
           /\ S # {} => stats[1].dominantEmotion = LatestOf(TopChannels(S))

\* C13 as stated: the same, the channel EARLIER in canonical order winning a tie.
C13_StatsDominantEarliestOnTie ==
    StatsRead =>
        LET S == SamplesOf(stats[1].sessionId)
        IN /\ TotalsAreSums(S)
           /\ S = {} => stats[1].dominantEmotion = "neutral"
           /\ S # {} => stats[1].dominantEmotion = EarliestOf(TopChannels(S))

\* The scenario: {happy:100}, {happy:60, sad:40}, {sad:100} persisted for one
\* session; totals happy 160, sad 140; dominantEmotion happy.
C13_Witness ==
    /\ StatsRead
    /\ VectorsOf(BySession(emotionAnalyses, stats[1].sessionId)) =
          << VectorObject(Only("happy", 100)), VectorObject(Two("happy", 60, "sad", 40)),
             VectorObject(Only("sad", 100)) >>
    /\ ValueAt(JsObject(stats[1].emotionTotals), "happy") = 160
    /\ ValueAt(JsObject(stats[1].emotionTotals), "sad") = 140
    /\ stats[1].dominantEmotion = "happy"

\* Whole seconds between two instants given in milliseconds.
SecondsBetween(from, to) ==
    CHOOSE n \in 0..(MaxSteps + 1) : n * 1000 <= to - from /\ to - from < (n + 1) * 1000

\* C14: the reported duration is the whole seconds from startTime to the query
\* time while the session is active, from startTime to endTime once it is not
\* active and has an end time, and 0 otherwise; so an ended session reports the
\* same duration at every later query.
C14_Duration ==
    StatsRead =>
        LET session == sessions[stats[1].sessionId]
        IN /\ session.isActive =>
                 stats[1].duration = SecondsBetween(session.startTime, stats[1].at)
           /\ (~session.isActive /\ session.endTime # <<>>) =>
                 stats[1].duration = SecondsBetween(session.startTime, session.endTime[1])
           /\ (~session.isActive /\ session.endTime = <<>>) => stats[1].duration = 0

\* A session started at 0 and ended at 1000 ms, queried at 2000 ms: 1 second, not 2.
C14_Witness ==
    /\ StatsRead
    /\ LET session == sessions[stats[1].sessionId]
       IN /\ ~session.isActive /\ session.startTime = 0 /\ session.endTime = <<1000>>
          /\ stats[1].at = 2000
          /\ stats[1].duration = 1

MessagesOf(sessionId) ==
    {i \in 1..Len(chatMessages) : chatMessages[i].sessionId = sessionId}

\* C15: detections is the number of samples persisted for the session and
\* messageCount the number of message records persisted for it.
C15_Counts ==
    StatsRead =>
        /\ stats[1].detections = Cardinality(SamplesOf(stats[1].sessionId))
        /\ stats[1].messageCount = Cardinality(MessagesOf(stats[1].sessionId))

\* Two samples and one chat (two records) in the session read, with a sample
\* and a chat in the other session as well.
C15_Witness ==
    /\ StatsRead /\ stats[1].detections = 2 /\ stats[1].messageCount = 2
    /\ Len(emotionAnalyses) = 3 /\ Len(chatMessages) = 4

\* The confidence a sample contributes: 0 when it has none.
ConfidenceOf(i) ==
    IF emotionAnalyses[i].confidence = <<>> THEN 0 ELSE emotionAnalyses[i].confidence[1]

RECURSIVE ConfidenceOver(_)
ConfidenceOver(S) ==
    IF S = {} THEN 0
    ELSE LET i == CHOOSE j \in S : TRUE IN ConfidenceOf(i) + ConfidenceOver(S \ {i})

\* C16: averageConfidence is 0 for a session without samples and otherwise the
\* integer nearest to (sum of the confidences, a missing one counting 0) /
\* (number of samples), a half rounding up.
C16_AverageConfidence ==
    StatsRead =>
        LET S == SamplesOf(stats[1].sessionId)
            n == Cardinality(S)
            r == stats[1].averageConfidence
        IN /\ n = 0 => r = 0
           /\ n > 0 => /\ (2 * r - 1) * n <= 2 * ConfidenceOver(S)
                        /\ 2 * ConfidenceOver(S) < (2 * r + 1) * n

\* Confidences 85 and missing: (85 + 0) / 2 = 42.5, reported as 43.
C16_Witness ==
    /\ StatsRead /\ stats[1].detections = 2 /\ stats[1].averageConfidence = 43
    /\ \E i \in SamplesOf(stats[1].sessionId) : emotionAnalyses[i].confidence = <<>>
    /\ \E i \in SamplesOf(stats[1].sessionId) : emotionAnalyses[i].confidence = <<85>>

\* C17: latestEmotions is the vector of the sample persisted last for the
\* session, and null when the session has no sample.
C17_LatestVector ==
    StatsRead =>
        LET S == SamplesOf(stats[1].sessionId)
        IN /\ S = {} => stats[1].latestEmotions = JsNull
           /\ S # {} =>
                 LET last == CHOOSE i \in S : \A j \in S : j <= i
                 IN stats[1].latestEmotions = emotionAnalyses[last].emotions

\* The session read holds two different vectors, the other session got the
\* sample persisted last, and the read returns the session's second vector.
C17_Witness ==
    /\ StatsRead /\ Len(emotionAnalyses) = 3
    /\ SamplesOf(stats[1].sessionId) = {1, 2}
    /\ emotionAnalyses[1].emotions # emotionAnalyses[2].emotions
    /\ emotionAnalyses[3].emotions # emotionAnalyses[2].emotions
    /\ stats[1].latestEmotions = emotionAnalyses[2].emotions

----------------------------------------------------------------------------
(* Provider chain: claims C18 - C19.                                       *)

\* C18: getAvailableProviders returns one entry per registered provider, in
\* priority order, each with the provider's name and its isConfigured() value,
\* and the call leaves the state of the chain as it was: no provider is
\* invoked, nothing of a running resolution changes.
C18_ListingIsSnapshot ==
    /\ [](listed # <<>> =>
            /\ Len(listed) = Len(Chain)
            /\ \A i \in 1..Len(Chain) :
                  /\ listed[i].name = ProviderName(Chain[i])
                  /\ listed[i].configured = Configured(Chain[i]))
    /\ [][listed' # listed => UNCHANGED chainVars]_vars

\* A listing taken while a provider call is in flight, showing both an
\* unconfigured and a configured remote provider.
C18_Witness ==
    /\ listed # <<>> /\ pc = "awaiting" /\ inflight # {}
    /\ \E i, j \in 1..Len(listed) :
          /\ ~listed[i].configured
          /\ listed[j].configured /\ Chain[j] \notin {"FreeGPT", "Local"}

\* C19: the registered chain ends with the local provider, which reports itself
\* configured under every set of keys and whose call never fails, so a
\* resolution always has a configured provider to try.
C19_LocalLastAndInfallible ==
    /\ Chain[Len(Chain)] = "Local"
    /\ Configured("Local")
    /\ \E i \in 1..Len(Chain) : Configured(Chain[i])
    /\ outcome["Local"] # "fail"

----------------------------------------------------------------------------
(* Face detection: claim C20.                                              *)

\* C20: once stopDetection has run, no interval that was set before it fires
\* again: neither a sampling tick nor a persistence tick, whatever the
\* sequence of startDetection and stopDetection calls.
C20_NoTickAfterStop ==
    (fired # <<>> /\ fired[1].kind \in {"sampling", "persistence"}) => ~fired[1].afterStop

----------------------------------------------------------------------------
(* Chat path and provider chain: claims C21 - C25.                         *)

\* The response texts AIProviderManager.generateResponse can return for the
\* context c, under either copy of the manager, any keys and any answers of
\* the external services.
ResolveResponses(c) ==
    LET outcomes == {Generate(rev, p, c, r, k) :
                        rev \in Revisions, p \in ProviderIds, r \in NetResponses,
                        k \in 1..ResponseVariants}
    IN {g.text : g \in {o \in outcomes : o.ok}}

\* C21: the AI message persisted for a chat request holds a response that the
\* provider chain produces for the request's emotion vector.
C21_AiMessageIsResolveResponse ==
    \A i \in 1..Len(chatMessages) :
        ~chatMessages[i].isUser =>
            chatMessages[i].content \in ResolveResponses(chatMessages[i].emotionContext)

\* The providers whose generateResponse sends a request to an external service.
MakesRequest(rev, p) == p # "Local" /\ ~(rev = "aiProviders" /\ p = "OpenAI")

\* An answer that is no usable response: a rejected request, a non-2xx status,
\* or a body that is malformed or holds no text.
Unusable(r) == r.threw \/ ~r.ok \/ r.body # "valid"

\* C22: a provider call that met a non-2xx status or a malformed or empty body
\* ended as a failure of that provider, never as its success.
C22_UnusableAnswerFails ==
    \A p \in ProviderIds :
        (/\ answered # <<>>
         /\ answered[1].provider = p
         /\ MakesRequest(revision, p)
         /\ Unusable(answered[1].answer))
        => outcome[p] = "fail"

\* C23: for every emotion vector, the channel the message display puts first
\* is the dominant channel the providers resolve for that vector, and the one
\* the statistics route resolves for a session holding that vector alone.
C23_SameChannelAtEverySite ==
    (/\ resolved # <<>>
     /\ resolved[1].site = "display"
     /\ input \in {VectorObject(f) : f \in Vectors})
    => /\ resolved[1].name = DominantGuarded(input).name
       /\ resolved[1].name = StatsDominant(EmotionTotals(<<input>>, 1, <<>>)).name

\* The call has settled after its loop ran to the end without a return.
SettledAfterLoop == pc \in {"returned", "threw"} /\ idx > Len(Chain)

\* C24: a call whose loop ran to the end without a success returns the local
\* provider's text together with the local provider's name.
C24_ExhaustedLoopReturnsLocal ==
    SettledAfterLoop =>
        /\ pc = "returned"
        /\ result # <<>>
        /\ result[1].provider = ProviderName("Local")
        /\ result[1].response.kind = "local"

\* C25: once the local provider has failed, the call does not return: it ends
\* by throwing, with no result handed to the caller, and until then it is on
\* its way past the end of the loop to the direct local call.
C25_LocalFailureSurfaces ==
    outcome["Local"] = "fail" =>
        /\ pc # "returned"
        /\ result = <<>>
        /\ pc = "loop" => idx > Len(Chain)
        /\ pc \in {"loop", "fallback", "threw"}

\* The local provider failed in the loop and again when called directly, and
\* the call ended by throwing.
C25_Witness ==
    /\ pc = "threw"
    /\ outcome["Local"] = "fail"
    /\ "Local" \in {failures[i] : i \in 1..Len(failures)}
    /\ Len(tried) >= 2 /\ tried[Len(tried)] = "Local" /\ tried[Len(tried) - 1] = "Local"
    /\ result = <<>>

----------------------------------------------------------------------------
(* Face detection: claims C26, C27.                                        *)

\* C26: no detection is delivered (onDetection called, lastDetectionRef set)
\* by an interval once stopDetection has run after that interval was set.
C26_NoDeliveryAfterStop ==
    (fired # <<>> /\ fired[1].kind = "delivery") => ~fired[1].afterStop

\* C27: a persistence tick writes at most one sample; it writes none when no
\* detection was delivered yet or no session is stored, and otherwise writes
\* the detection delivered last, under the stored session's id.
C27_TickForwardsLatest ==
    (fired # <<>> /\ fired[1].kind = "persistence") =>
        LET written == fired[1].data
        IN /\ Len(written) <= 1
           /\ (delivered = <<>> \/ storedSession = 0) => written = <<>>
           /\ (delivered # <<>> /\ storedSession # 0) =>
                 /\ Len(written) = 1
                 /\ written[1].sessionId = storedSession
                 /\ written[1].emotions = delivered[1].emotions
                 /\ written[1].age = delivered[1].age
                 /\ written[1].gender = delivered[1].gender

\* A persistence tick wrote the tied vector, the detection delivered last.
C27_Witness ==
    /\ fired # <<>> /\ fired[1].kind = "persistence"
    /\ Len(fired[1].data) = 1
    /\ delivered # <<>>
    /\ fired[1].data[1].emotions = VectorObject(Two("happy", 50, "sad", 50))
    /\ fired[1].data[1].emotions = delivered[1].emotions

----------------------------------------------------------------------------
(* Route handlers between their awaits: claims C28 - C30.                  *)

\* What a stats request for the session would return if it ran alone at time t.
AloneAt(sessionId, t) ==
    IF sessionId \in 1..Len(sessions) THEN StatsBody(sessionId, t) ELSE NotFound(sessionId, t)

\* C28: every step of a stats handler leaves the sessions, samples and
\* messages as they are, and the response of a stats request, whatever other
\* stats requests ran between its reads, is the response the request would
\* get running alone at the time it responds.
C28_StatsReadOnlyAndReentrant ==
    /\ [](\A r \in Requests :
            statsCalls[r].pc = "done" =>
                statsCalls[r].response =
                    <<AloneAt(statsCalls[r].sessionId, statsCalls[r].response[1].at)>>)
    /\ [][statsCalls' # statsCalls => UNCHANGED <<sessions, emotionAnalyses, chatMessages>>]_vars

\* Two requests for different sessions with samples were answered, the first
\* one while the second was between its reads.
C28_Witness ==
    /\ statsCalls["r1"].pc = "done" /\ statsCalls["r2"].pc = "done"
    /\ statsCalls["r1"].sessionId = 1 /\ statsCalls["r2"].sessionId = 2
    /\ statsCalls["r1"].overlapped
    /\ statsCalls["r1"].response[1].detections = 2
    /\ statsCalls["r2"].response[1].detections = 1

KeysOf(v) == {v.entries[i][1] : i \in 1..Len(v.entries)}

\* The snapshot of a session without samples and messages.
C29_EmptySnapshot ==
    (stats # <<>> /\ stats[1].status = 200
        /\ stats[1].detections = 0 /\ stats[1].messageCount = 0)
    => /\ stats[1].averageConfidence = 0
       /\ stats[1].dominantEmotion = "neutral"
       /\ stats[1].latestEmotions = JsNull

\* C29: the statistics of a known session are a complete snapshot, the one of
\* C29_EmptySnapshot for a session without samples and messages, and whatever
\* the samples hold the snapshot speaks of the seven channels only.
C29_TotalAndNormalized ==
    (stats # <<>> /\ stats[1].sessionId \in 1..Len(sessions)) =>
        /\ stats[1].status = 200
        /\ C29_EmptySnapshot
        /\ stats[1].dominantEmotion \in ChannelSet
        /\ KeysOf(stats[1].latestEmotions) \subseteq ChannelSet

ActiveSessionsOf(userId) ==
    {i \in 1..Len(sessions) : sessions[i].userId = userId /\ sessions[i].isActive}

\* C30: whatever POST /api/sessions requests have run, and however their
\* handlers interleaved at their awaits, no user has two active sessions.
C30_OneActiveSessionPerUser ==
    \A userId \in Users : Cardinality(ActiveSessionsOf(userId)) <= 1

----------------------------------------------------------------------------
(* Face detection: claim C31.                                              *)

AliveOf(kind) == {t \in intervals : t.kind = kind}

\* C31: at any time at most one sampling interval and at most one persistence
\* interval are alive, and every interval alive is the one its ref holds, so
\* that stopDetection can clear it.
C31_OneTrackedPairOfTimers ==
    /\ Cardinality(AliveOf("sampling")) <= 1
    /\ Cardinality(AliveOf("persistence")) <= 1
    /\ \A t \in AliveOf("sampling") : t.id = detectionIntervalRef
    /\ \A t \in AliveOf("persistence") : t.id = autoSaveIntervalRef

----------------------------------------------------------------------------
(* Emotion buffer: claim C36.                                              *)

\* Of the samples appended since the last clear, the positions of the last
\* ten, and those of them a window w takes in at the current time.
Retained == {i \in 1..Len(appended) : i > Len(appended) - Capacity}
RetainedIn(w) == {i \in Retained : now - appended[i].timestamp <= w}
EverIn(w) == {i \in 1..Len(appended) : now - appended[i].timestamp <= w}

RECURSIVE SumAppended(_, _)
SumAppended(S, c) ==
    IF S = {} THEN 0
    ELSE LET i == CHOOSE j \in S : TRUE
         IN appended[i].emotions[c] + SumAppended(S \ {i}, c)

\* C36: getAverageEmotions averages over the retained samples only: of all
\* samples appended, those among the last ten that the window takes in; a
\* sample appended earlier does not count even when the window takes it in.
C36_AverageOverRetainedOnly ==
    AverageRead =>
        LET o == observed[1]
            S == RetainedIn(o.window)
        IN /\ Cardinality(S) <= Capacity
           /\ (o.value = <<>>) <=> (S = {})
           /\ S # {} =>
                 \A c \in ChannelSet :
                     o.value[1][c].num * Cardinality(S) = o.value[1][c].den * SumAppended(S, c)

\* More than ten samples were appended inside the window, the evicted ones
\* differing from the rest: the average read is the mean of the last ten and
\* not the mean of all the samples the window takes in.
C36_Witness ==
    /\ AverageRead /\ observed[1].value # <<>>
    /\ Len(appended) > Capacity
    /\ EverIn(observed[1].window) = 1..Len(appended)
    /\ Cardinality(RetainedIn(observed[1].window)) = Capacity
    /\ \E c \in ChannelSet :
          observed[1].value[1][c].num * Len(appended)
              # observed[1].value[1][c].den * SumAppended(1..Len(appended), c)

----------------------------------------------------------------------------
(* The write routes: claims C32 - C34.                                     *)

\* The requests whose handler has stored the AI's message.
Answered == {r \in Requests : chatCalls[r].aiMessage # 0}

\* The position of message i in the list getChatMessagesBySession returns.
PositionInSession(i) ==
    Cardinality({j \in 1..i : chatMessages[j].sessionId = chatMessages[i].sessionId})

\* The order and pairing of the two messages of a request: the first message
\* is stored before the response is generated, the AI's message after it, in
\* the same session with the same emotion context, one of each per request,
\* and the session's list has the first before the second.
C32_PairInOrder ==
    /\ \A r \in Requests :
          /\ chatCalls[r].pc = "generate" =>
                chatCalls[r].userMessage \in 1..Len(chatMessages) /\ chatCalls[r].aiMessage = 0
          /\ r \in Answered =>
                LET u == chatCalls[r].userMessage
                    a == chatCalls[r].aiMessage
                    body == chatCalls[r].body[1]
                IN /\ 0 < u /\ u < a /\ a <= Len(chatMessages)
                   /\ chatMessages[u].content = body.content[1]
                   /\ ~chatMessages[a].isUser
                   /\ chatMessages[u].sessionId = body.sessionId
                   /\ chatMessages[a].sessionId = body.sessionId
                   /\ chatMessages[a].emotionContext = chatMessages[u].emotionContext
                   /\ chatMessages[u].timestamp <= chatMessages[a].timestamp
                   /\ PositionInSession(u) < PositionInSession(a)
    /\ Len(chatMessages) =
          Cardinality({r \in Requests : chatCalls[r].userMessage # 0}) + Cardinality(Answered)
    /\ \A r, q \in Requests :
          (r # q /\ chatCalls[r].userMessage # 0) =>
              /\ chatCalls[r].userMessage # chatCalls[q].userMessage
              /\ chatCalls[r].userMessage # chatCalls[q].aiMessage

\* C32: every handled chat request writes one message with isUser = true,
\* then, after the response is generated, one with isUser = false, to the same
\* session with the same emotion context, and the session's list returns them
\* in that order.
C32_UserThenAiMessage ==
    /\ C32_PairInOrder
    /\ \A r \in Answered : chatMessages[chatCalls[r].userMessage].isUser

\* The AI invocation of a request throws: the resolution of the dominant
\* emotion does, or the OpenAI call.
InvocationThrows(body, answer) ==
    \/ body.emotionContext.kind # "object"
    \/ Len(body.emotionContext.entries) = 0
    \/ answer.threw \/ ~answer.ok
    \/ answer.body \in {"unparsable", "error", "nopayload"}

\* C33: a chat request with a valid body is never answered with an error, and
\* when its AI invocation throws the AI message is still stored, with the
\* apology text as its content.
C33_AiFailureIsApology ==
    \A r \in Requests :
        (chatCalls[r].body # <<>> /\ ParsesChat(chatCalls[r].body[1])) =>
            /\ chatCalls[r].response # <<>> => chatCalls[r].response[1].status = 200
            /\ chatCalls[r].answer # <<>> =>
                  /\ r \in Answered
                  /\ InvocationThrows(chatCalls[r].body[1], chatCalls[r].answer[1]) =>
                        chatMessages[chatCalls[r].aiMessage].content = ChatApology

\* One request without an emotion context and one whose OpenAI call was
\* rejected were both answered 200, each with the apology stored.
C33_Witness ==
    /\ \A r \in Requests : chatCalls[r].pc = "done" /\ chatCalls[r].response[1].status = 200
    /\ chatCalls["r1"].body[1].emotionContext = JsNull
    /\ chatCalls["r2"].body[1].emotionContext # JsNull /\ chatCalls["r2"].answer[1].threw
    /\ \A r \in Requests : chatMessages[chatCalls[r].aiMessage].content = ChatApology

\* A step that handles a request whose body fails to parse.
RejectsSample == saved' # saved /\ saved' # <<>> /\ saved'[1].body.emotions = <<>>
RejectsChat ==
    \E r \in Requests :
        /\ chatCalls[r].body = <<>> /\ chatCalls'[r].body # <<>>
        /\ (chatCalls'[r].body[1].content = <<>> \/ chatCalls'[r].body[1].isUser = <<>>)

\* C34: a request whose body fails validation is answered with an error
\* status, and the step that handles it leaves every sample and message, and
\* with them the statistics of every session, as they were.
C34_RejectedWriteChangesNothing ==
    /\ [](saved # <<>> /\ saved[1].body.emotions = <<>> => saved[1].status = 400)
    /\ [](\A r \in Requests :
            (chatCalls[r].body # <<>> /\ chatCalls[r].body[1].content = <<>>) =>
                chatCalls[r].pc = "done" /\ chatCalls[r].response[1].status = 500)
    /\ [][(RejectsSample \/ RejectsChat) =>
            /\ UNCHANGED <<sessions, emotionAnalyses, chatMessages>>
            /\ \A sessionId \in 1..Len(sessions) :
                  StatsBodyFrom(sessionId, BySession(emotionAnalyses', sessionId),
                                BySession(chatMessages', sessionId), sessions'[sessionId],
                                clock')
                      = StatsBody(sessionId, clock)]_vars

\* Both routes have rejected a body while the session held a sample and a
\* message.
C34_Witness ==
    /\ saved # <<>> /\ saved[1].status = 400
    /\ Len(emotionAnalyses) > 0 /\ Len(chatMessages) > 0
    /\ \E r \in Requests :
          chatCalls[r].pc = "done" /\ chatCalls[r].response[1].status = 500

----------------------------------------------------------------------------
(* Isolation of the statistics between sessions: claim C35                 *)

\* The store of the run that differs from this one only in that nothing was
\* written to the other sessions.
RunOfSessionAlone(records, sessionId) ==
    SelectSeq(records, LAMBDA r : r.sessionId = sessionId)

\* The statistics of the session in that other run, read at time t.
StatsBodyAlone(sessionId, t) ==
    StatsBodyFrom(sessionId,
                  BySession(RunOfSessionAlone(emotionAnalyses, sessionId), sessionId),
                  BySession(RunOfSessionAlone(chatMessages, sessionId), sessionId),
                  sessions[sessionId], t)

\* The records a step appends to a list.
Appended(before, after) == {after[i] : i \in (Len(before) + 1)..Len(after)}

\* A step that writes, and writes to other sessions than sessionId only.
WritesToOthersOnly(sessionId) ==
    /\ Len(emotionAnalyses') >= Len(emotionAnalyses)
    /\ Len(chatMessages') >= Len(chatMessages)
    /\ Appended(emotionAnalyses, emotionAnalyses') \cup Appended(chatMessages, chatMessages') # {}
    /\ \A r \in Appended(emotionAnalyses, emotionAnalyses')
                \cup Appended(chatMessages, chatMessages') : r.sessionId # sessionId

\* C35: the statistics of a session are those of the run in which nothing was
\* written to any other session: every response the stats route returns for a
\* session equals the one computed from that session's records alone, and a
\* write to session B leaves detections, averageConfidence, dominantEmotion,
\* messageCount and the latest vector of every session A # B as they were.
C35_StatsIsolatedPerSession ==
    /\ [](\A sessionId \in 1..Len(sessions) :
            StatsBody(sessionId, clock) = StatsBodyAlone(sessionId, clock))
    /\ [](stats # <<>> /\ stats[1].status = 200
            => stats[1] = StatsBodyAlone(stats[1].sessionId, stats[1].at))
    /\ [][\A sessionId \in 1..Len(sessions) :
            WritesToOthersOnly(sessionId)
            => StatsBodyFrom(sessionId, BySession(emotionAnalyses', sessionId),
                             BySession(chatMessages', sessionId),
                             sessions'[sessionId], clock')
               = StatsBody(sessionId, clock)]_vars

\* The statistics of session 1 are returned while session 2 holds samples and
\* messages, the sample written last among them.
C35_Witness ==
    /\ stats # <<>> /\ stats[1].status = 200 /\ stats[1].sessionId = 1
    /\ stats[1].detections > 0 /\ stats[1].messageCount > 0
    /\ \E i \in 1..Len(chatMessages) : chatMessages[i].sessionId = 2
    /\ Len(emotionAnalyses) > stats[1].detections
    /\ emotionAnalyses[Len(emotionAnalyses)].sessionId = 2

----------------------------------------------------------------------------
(* The life of a session: claim C37                                        *)

\* The session was created by the step.
CreatedByStep(i) == i > Len(sessions) /\ i <= Len(sessions')

\* C37: every session is created active with no end time; a session becomes
\* inactive only in a step that sets its end time; an inactive session stays
\* inactive; so an inactive session always has an end time not earlier than
\* its start time, and the duration reported for it is not negative.
C37_SessionLifecycle ==
    /\ [][/\ Len(sessions') >= Len(sessions)
          /\ \A i \in 1..Len(sessions') :
                /\ CreatedByStep(i)
                     => sessions'[i].isActive /\ sessions'[i].endTime = <<>>
                /\ i <= Len(sessions) /\ sessions[i].isActive /\ ~sessions'[i].isActive
                     => sessions'[i].endTime = <<clock>>
                /\ i <= Len(sessions) /\ ~sessions[i].isActive
                     => ~sessions'[i].isActive]_vars
    /\ [](\A i \in 1..Len(sessions) :
            ~sessions[i].isActive
            => /\ sessions[i].endTime # <<>>
               /\ sessions[i].endTime[1] >= sessions[i].startTime
               /\ Duration(sessions[i], clock) >= 0
               /\ Duration(sessions[i], clock)
                    = FloorSeconds(sessions[i].endTime[1] - sessions[i].startTime))

\* A session that lasted a second was ended by a request that then created
\* the user's next session, while another request of the same user is between
\* its lookup and its update.
C37_Witness ==
    /\ \E i \in 1..Len(sessions) :
          /\ ~sessions[i].isActive
          /\ Duration(sessions[i], clock) >= 1
          /\ \E j \in (i + 1)..Len(sessions) :
                sessions[j].userId = sessions[i].userId /\ sessions[j].isActive
    /\ \E r \in Requests :
          sessionCalls[r].pc = "found" /\ sessionCalls[r].existingSession # 0

====
